---- MODULE Spec2Model ----
(***************************************************************************)
(* floka: the container lifecycle engine (pkg/container), the part of the  *)
(* image store it depends on (fimage.Pull) and the `run` command of the    *)
(* CLI.  Strings are sequences of byte chunks, directories and files are   *)
(* functions and sets, the supervisor's Run is a sequence of steps, one    *)
(* per system call, so that other processes interleave with it.            *)
(***************************************************************************)
EXTENDS Integers, Sequences, FiniteSets, TLC

\* ------------------------------------------------------------------ bounds
\* Largest reading of the nanosecond clock; container IDs are cont_1..cont_MaxTime.
MaxTime == 2
\* Longest history of API calls (Run, Stop, Remove) one caller makes.
MaxOps == 3

\* ------------------------------------------------------------- processes
Sup == {"s1", "s2"}
IDs == 1..MaxTime
Nil == [kind |-> "nil"]

\* The PID the kernel gives the child of each supervisor (cmd.Process.Pid).
PidOf(p) == IF p = "s1" THEN 101 ELSE 102
Pids == {PidOf(p) : p \in Sup}

\* Exit statuses of the containerized command; -1 is Go's ExitCode() of a
\* process killed by a signal.
ExitCodes == {0, 7}
Killed == 0 - 1

\* ---------------------------------------------------------------- strings
\* A string is a sequence of chunks; BadByte is a byte that is not valid UTF-8.
BadByte == "\\xff"
Replacement == "\\ufffd"
Latest == <<"latest">>
Alpine == <<"alpine">>
Nonexistent == <<"nonexistent">>
ImageNames == {Alpine, Nonexistent}
Demo == <<"demo">>
V1 == <<"v1">>

\* fmt.Sprintf("%s:%s", name, tag)
ImageFullName(name, tag) == name \o <<":">> \o tag
DemoDir == ImageFullName(Demo, V1)
\* The directories of images/ the model follows: the images of the run
\* command, and the tags given to Build, one of them without a colon.
DirNames == {ImageFullName(n, Latest) : n \in ImageNames} \cup {DemoDir, Demo}
\* filepath.Join("images", imageFullName, "rootfs")
RootDir(fullName) == <<"images", "/">> \o fullName \o <<"/", "rootfs">>
\* The image directory a rootfs path lies in.
DirOfRoot(path) == SubSeq(path, 3, Len(path) - 2)

Commands == { <<<<"/bin/sh">>>>, <<<<"/bin/echo">>, <<BadByte>>>> }
DefaultCommand == <<<<"/bin/sh">>>>

\* Files and directories of an image's rootfs.
MountPoints == {"proc", "sys", "dev", "tmp", "usr/local/bin"}
SelfPath == "usr/local/bin/floka"
BaseFiles == {"bin/sh"}

\* ------------------------------------------------------------------ state
VARIABLES
    now,        \* the clock, time.Now().UnixNano()
    faults,     \* whether system calls may fail for reasons outside the model
    cgv2,       \* /sys/fs/cgroup/cgroup.controllers exists
    images,     \* images/: per directory name, [dir, rootfs, files]
    cdir,       \* containers/<id>/ exists
    rootfsDir,  \* containers/<id>/rootfs exists
    mounts,     \* stack of bind mounts on containers/<id>/rootfs (image dirs)
    meta,       \* containers/<id>/metadata/container.json
    cg,         \* cgroup directories, <<controller, id>>
    cgprocs,    \* PIDs written to cgroup.procs / tasks, <<controller, id, pid>>
    proc,       \* child processes: [state, code]
    pc,         \* each supervisor's place in its program
    image, command, opts,   \* arguments of Run
    containerID,            \* Run's local containerID
    c,          \* the Container object of each supervisor
    ret,        \* what Run returned: [cont, err]
    trace,      \* the supervisor steps completed, in order
    hist,       \* API calls the caller has completed
    rmres,      \* what the caller's last Remove reported
    removed,    \* IDs some Remove has acted on
    args,       \* the `run` command line: [imageName, command]
    stdout, stderr, exitStatus,  \* of the `run` process
    ctl,        \* the Container object another process got from Load
    lpc, lentries, lresult, lseen, laborted,  \* ListContainers
    broken,     \* what the host lacks: "exec" (the image cannot execute the
                \* supervisor binary), "cgroup" (/sys/fs/cgroup is read-only)
    argv,       \* the arguments after `run` on the command line
    cgfiles,    \* limit files of the cgroup directories, <<controller, id, file, value>>
    ienv,       \* images/<dir>/rootfs/etc/environment: its lines, <<key, value>>
    iinfo,      \* the directories with a metadata/image.info
    sres,       \* the last operation on the image store and what it returned
    ini,        \* the init phase: [pc, command, i, mnt, log, defers, cmd, exit]
    par,        \* the parser: [pc, file, edited, edits, res, res2]
    call        \* a call of a function of the program: [fn, pc, arguments, res]

envVars == <<now, faults, cgv2>>
diskVars == <<images, cdir, rootfsDir, mounts, meta, cg, cgprocs>>
supVars == <<pc, image, command, opts, containerID, c, ret, trace, hist, rmres>>
cliVars == <<args, stdout, stderr, exitStatus>>
listVars == <<lpc, lentries, lresult, lseen, laborted>>
hostVars == <<broken>>
storeVars == <<ienv, iinfo, sres>>
auxVars == <<hostVars, argv, storeVars, ini, par, call>>
vars == <<envVars, diskVars, proc, supVars, removed, cliVars, ctl, listVars, cgfiles, auxVars>>

\* What a system call may do: succeed, or (when faults are on) also fail.
Outcomes == IF faults THEN {TRUE, FALSE} ELSE {TRUE}


\* ------------------------------------------------------- container.json
NoFile == [kind |-> "absent"]
\* A file that holds no complete JSON value: just truncated by
\* open(O_TRUNC) (size 0), or the bytes of a longer record with a shorter
\* one written over its start.
Garbage(n) == [kind |-> "partial", size |-> n]
Partial == Garbage(0)

\* encoding/json writes a string coerced to valid UTF-8: every invalid byte
\* becomes U+FFFD.
JsonString(s) == [i \in 1..Len(s) |-> IF s[i] = BadByte THEN Replacement ELSE s[i]]

\* A faulty encoding, against which C17 is tried: one that never writes a
\* status other than the first.
MarshalFirstStatus(cn) ==
    [kind |-> "json", ID |-> cn.ID, Image |-> JsonString(cn.Image),
     Command |-> [i \in 1..Len(cn.Command) |-> JsonString(cn.Command[i])],
     Status |-> "created", Pid |-> cn.Pid]

\* json.Marshal of updateMetadata's map (Updated is never read back).
Marshal(cn) ==
    [kind |-> "json", ID |-> cn.ID, Image |-> JsonString(cn.Image),
     Command |-> [i \in 1..Len(cn.Command) |-> JsonString(cn.Command[i])],
     Status |-> cn.Status, Pid |-> cn.Pid]

\* The Container of Run, line 47.
NewContainer(id, img, cmd) ==
    [ID |-> id, Image |-> img, Command |-> cmd, Status |-> "created", Pid |-> 0]

\* The number of bytes of the parts of a record's JSON text that differ
\* between two records of one container.
ChunkLen(ch) ==
    CASE ch = "/bin/sh" -> 7
      [] ch = "/bin/echo" -> 9
      [] ch = Replacement -> 6
      [] OTHER -> 1
RECURSIVE TextLen(_)
TextLen(q) == IF q = <<>> THEN 0 ELSE ChunkLen(Head(q)) + TextLen(Tail(q))
RECURSIVE CommandLen(_)
CommandLen(q) == IF q = <<>> THEN 0 ELSE 3 + TextLen(Head(q)) + CommandLen(Tail(q))
JsonSize(m) ==
    IF m.kind = "partial" THEN m.size
    ELSE CommandLen(m.Command) + (IF m.Status = "failed" THEN 6 ELSE 7)
         + (IF m.Pid = 0 THEN 1 ELSE 3)

\* What the write of os.WriteFile, at offset 0 of the file opened earlier,
\* leaves in a file that `cur` describes at that time: an unlinked file stays
\* gone; bytes another writer put there since the truncation stay behind the
\* end of a shorter content.
Written(cur, content) ==
    IF cur.kind = "absent" THEN NoFile
    ELSE IF JsonSize(cur) > JsonSize(content) THEN Garbage(JsonSize(cur))
    ELSE content

\* ------------------------------------------------------------ Run's steps
UpdSteps == {"upd_created", "upd_failed", "upd_running", "upd_stopped"}

\* The second half of os.WriteFile for each call of updateMetadata.
DataPhase(step) ==
    CASE step = "upd_created" -> "upd_created_w"
      [] step = "upd_failed" -> "upd_failed_w"
      [] step = "upd_running" -> "upd_running_w"
      [] step = "upd_stopped" -> "upd_stopped_w"
DataSteps == {DataPhase(s) : s \in UpdSteps}
OpenPhase(step) == CHOOSE s \in UpdSteps : DataPhase(s) = step

\* A wrong order, against which C2 is tried: cgroup setup moved after the spawn.
StepAfterSpawnFirst(step, hasOpts) ==
    CASE step = "generateID" -> "mkdirRootfs"
      [] step = "mkdirRootfs" -> "bindMount"
      [] step = "bindMount" -> "mountPoints"
      [] step = "mountPoints" -> "selfInsert"
      [] step = "selfInsert" -> "upd_created"
      [] step = "upd_created" -> "spawn"
      [] step = "spawn" -> "upd_running"
      [] step = "upd_running" -> IF hasOpts THEN "setupCgroups" ELSE "addProcessToCgroups"
      [] step = "setupCgroups" -> "addProcessToCgroups"
      [] step = "addProcessToCgroups" -> "wait"
      [] step = "wait" -> "upd_stopped"
      [] step = "upd_stopped" -> "returned"
      [] step = "upd_failed" -> "returned"

\* The order of the statements of Run, prepareRootfs and Start.
StepAfter(step, hasOpts) ==
    CASE step = "generateID" -> "mkdirRootfs"
      [] step = "mkdirRootfs" -> "bindMount"
      [] step = "bindMount" -> "mountPoints"
      [] step = "mountPoints" -> "selfInsert"
      [] step = "selfInsert" -> "upd_created"
      [] step = "upd_created" -> IF hasOpts THEN "setupCgroups" ELSE "spawn"
      [] step = "setupCgroups" -> "spawn"
      [] step = "spawn" -> "upd_running"
      [] step = "upd_running" -> "addProcessToCgroups"
      [] step = "addProcessToCgroups" -> "wait"
      [] step = "wait" -> "upd_stopped"
      [] step = "upd_stopped" -> "returned"
      [] step = "upd_failed" -> "returned"

Goto(p, step) == pc' = [pc EXCEPT ![p] = step]
Advance(p) == Goto(p, StepAfter(pc[p], opts[p] # Nil))
Log(p, e) == trace' = [trace EXCEPT ![p] = Append(@, e)]

\* Run returns: (container or nil, err).  err is "nil", "error" or "exit" (the
\* *exec.ExitError of cmd.Wait).
Return(p, cont, err) ==
    /\ ret' = [ret EXCEPT ![p] = [cont |-> cont, err |-> err]]
    /\ hist' = [hist EXCEPT ![p] = <<"Run">>]
    /\ Goto(p, "returned")

\* generateID: cont_<UnixNano>.  The clock never runs backwards; two readings
\* may be equal.
GenerateID(p) ==
    /\ pc[p] = "generateID"
    /\ \E t \in now..MaxTime :
        /\ now' = t
        /\ containerID' = [containerID EXCEPT ![p] = t]
    /\ Advance(p)
    /\ UNCHANGED <<faults, cgv2, diskVars, proc, image, command, opts, c, ret,
                   trace, hist, rmres, removed, cliVars, ctl, listVars,
                   cgfiles, auxVars>>

\* Run line 38: os.MkdirAll(containers/<id>/rootfs).
MkdirRootfs(p) ==
    /\ pc[p] = "mkdirRootfs"
    /\ \E ok \in Outcomes :
        IF ok
        THEN /\ cdir' = [cdir EXCEPT ![containerID[p]] = TRUE]
             /\ rootfsDir' = [rootfsDir EXCEPT ![containerID[p]] = TRUE]
             /\ Log(p, "mkdir")
             /\ Advance(p)
             /\ UNCHANGED <<ret, hist>>
        ELSE /\ Return(p, FALSE, "error")
             /\ UNCHANGED <<cdir, rootfsDir, trace>>
    /\ UNCHANGED <<envVars, images, mounts, meta, cg, cgprocs, proc, image, command,
                   opts, containerID, c, rmres, removed, cliVars, ctl, listVars,
                   cgfiles, auxVars>>

\* prepareRootfs line 114: the recursive bind mount of the image onto rootfs.
BindMount(p) ==
    /\ pc[p] = "bindMount"
    /\ LET id == containerID[p]
           src == DirOfRoot(image[p])
           can == /\ src \in DOMAIN images
                  /\ images[src].rootfs
                  /\ rootfsDir[id]
       IN \E ok \in Outcomes :
            IF ok /\ can
            THEN /\ mounts' = [mounts EXCEPT ![id] = Append(@, src)]
                 /\ Log(p, "bind")
                 /\ Advance(p)
                 /\ UNCHANGED <<ret, hist>>
            ELSE /\ Return(p, FALSE, "error")
                 /\ UNCHANGED <<mounts, trace>>
    /\ UNCHANGED <<envVars, images, cdir, rootfsDir, meta, cg, cgprocs, proc, image,
                   command, opts, containerID, c, rmres, removed, cliVars, ctl, listVars,
                   cgfiles, auxVars>>

\* The image directory that paths under containers/<id>/rootfs resolve into.
Top(id) == mounts[id][Len(mounts[id])]
Mounted(id) == mounts[id] # <<>>

\* prepareRootfs lines 119-125: MkdirAll of proc, sys, dev, tmp, usr/local/bin
\* under rootfs, that is, through the bind mount.
MkMountPoints(p) ==
    /\ pc[p] = "mountPoints"
    /\ LET id == containerID[p] IN
       \E ok \in Outcomes :
        IF ok
        THEN /\ IF Mounted(id)
                THEN /\ images' = [images EXCEPT ![Top(id)].files = @ \cup MountPoints]
                     /\ UNCHANGED <<cdir, rootfsDir>>
                ELSE /\ cdir' = [cdir EXCEPT ![id] = TRUE]
                     /\ rootfsDir' = [rootfsDir EXCEPT ![id] = TRUE]
                     /\ UNCHANGED images
             /\ Advance(p)
             /\ UNCHANGED <<ret, hist>>
        ELSE /\ Return(p, FALSE, "error")
             /\ UNCHANGED <<images, cdir, rootfsDir>>
    /\ UNCHANGED <<envVars, mounts, meta, cg, cgprocs, proc, image, command, opts,
                   containerID, c, trace, rmres, removed, cliVars, ctl, listVars,
                   cgfiles, auxVars>>

\* A child that runs executes usr/local/bin/floka of the image its
\* supervisor mounted (Start, lines 231-234 and 250-254); open(2) for
\* writing fails with ETXTBSY on a file that is being executed.
TextBusy(img) ==
    \E q \in Sup : proc[PidOf(q)].state = "alive" /\ DirOfRoot(image[q]) = img

\* prepareRootfs lines 128-142: the copy of the host executable to
\* rootfs/usr/local/bin/floka; then Run line 47 makes the Container.
SelfInsert(p) ==
    /\ pc[p] = "selfInsert"
    /\ LET id == containerID[p]
           can == IF Mounted(id)
                  THEN "usr/local/bin" \in images[Top(id)].files /\ ~TextBusy(Top(id))
                  ELSE rootfsDir[id]
       IN \E ok \in Outcomes :
            IF ok /\ can
            THEN /\ images' = IF Mounted(id)
                              THEN [images EXCEPT ![Top(id)].files = @ \cup {SelfPath}]
                              ELSE images
                 /\ c' = [c EXCEPT ![p] = NewContainer(id, image[p], command[p])]
                 /\ Log(p, "selfinsert")
                 /\ Advance(p)
                 /\ UNCHANGED <<ret, hist>>
            ELSE /\ Return(p, FALSE, "error")
                 /\ UNCHANGED <<images, c, trace>>
    /\ UNCHANGED <<envVars, cdir, rootfsDir, mounts, meta, cg, cgprocs, proc, image,
                   command, opts, containerID, rmres, removed, cliVars, ctl, listVars,
                   cgfiles, auxVars>>


\* cmd.Wait()'s error: nil for exit status 0, an *exec.ExitError otherwise.
WaitErr(p) == IF proc[PidOf(p)].code = 0 THEN "nil" ELSE "exit"

\* What Run and Start do with the result of each updateMetadata call:
\* the first write is fatal to Run (lines 61-63), the others only warn
\* (lines 260-263, 270-272, 285-287).
AfterUpd(p, site, ok) ==
    CASE site = "upd_created" ->
            IF ok
            THEN /\ Log(p, "meta_created")
                 /\ Goto(p, StepAfter(site, opts[p] # Nil))
                 /\ UNCHANGED <<ret, hist>>
            ELSE /\ Return(p, FALSE, "error")
                 /\ UNCHANGED trace
      [] site = "upd_failed" ->
            /\ Return(p, TRUE, "error")
            /\ UNCHANGED trace
      [] site = "upd_running" ->
            /\ IF ok THEN Log(p, "meta_running") ELSE UNCHANGED trace
            /\ Goto(p, StepAfter(site, opts[p] # Nil))
            /\ UNCHANGED <<ret, hist>>
      [] site = "upd_stopped" ->
            /\ Return(p, TRUE, WaitErr(p))
            /\ UNCHANGED trace

\* updateMetadata, first half: MkdirAll of the metadata directory and the
\* open(O_CREATE|O_TRUNC) of os.WriteFile.
UpdOpen(p) ==
    /\ pc[p] \in UpdSteps
    /\ LET id == c[p].ID IN
       \E ok \in Outcomes :
        IF ok
        THEN /\ cdir' = [cdir EXCEPT ![id] = TRUE]
             /\ meta' = [meta EXCEPT ![id] = Partial]
             /\ Goto(p, DataPhase(pc[p]))
             /\ UNCHANGED <<ret, hist, trace>>
        ELSE /\ AfterUpd(p, pc[p], FALSE)
             /\ UNCHANGED <<cdir, meta>>
    /\ UNCHANGED <<envVars, images, rootfsDir, mounts, cg, cgprocs, proc, image,
                   command, opts, containerID, c, rmres, removed, cliVars, ctl, listVars,
                   cgfiles, auxVars>>

\* updateMetadata, second half: the write of the JSON bytes.  A failed write
\* leaves the file as the truncation left it.
UpdWrite(p) ==
    /\ pc[p] \in DataSteps
    /\ LET id == c[p].ID IN
       \E ok \in Outcomes :
        IF ok
        THEN /\ meta' = [meta EXCEPT ![id] = Written(meta[id], Marshal(c[p]))]
             /\ AfterUpd(p, OpenPhase(pc[p]), TRUE)
        ELSE /\ AfterUpd(p, OpenPhase(pc[p]), FALSE)
             /\ UNCHANGED meta
    /\ UNCHANGED <<envVars, images, cdir, rootfsDir, mounts, cg, cgprocs, proc, image,
                   command, opts, containerID, c, rmres, removed, cliVars, ctl, listVars,
                   cgfiles, auxVars>>

\* The cgroup directories of a container: one on the unified hierarchy, one
\* per subsystem on v1.
Controllers == IF cgv2 THEN <<"unified">> ELSE <<"memory", "cpu">>
CgDirs(id, n) == {<<Controllers[i], id>> : i \in 1..n}

\* ---- 64-bit arithmetic
\* A natural number too large for one machine integer of the model is a
\* sequence of Limbs digits in base LimbBase, the least significant first.
Limbs == 10
LimbBase == 1024
Zero == [i \in 1..Limbs |-> 0]

RECURSIVE WideFrom(_, _)
WideFrom(k, n) == IF n = 0 THEN <<>> ELSE <<k % LimbBase>> \o WideFrom(k \div LimbBase, n - 1)
\* The digits of a small natural number, and the number of digits that fit.
Wide(k) == WideFrom(k, Limbs)
Narrow(x) == x[1] + LimbBase * x[2] + LimbBase * LimbBase * x[3]

\* x * m + carry for a small m, digit by digit.
RECURSIVE MulFrom(_, _, _)
MulFrom(x, m, carry) ==
    IF x = <<>> THEN <<>>
    ELSE <<(Head(x) * m + carry) % LimbBase>>
         \o MulFrom(Tail(x), m, (Head(x) * m + carry) \div LimbBase)
MulSmall(x, m) == MulFrom(x, m, 0)
MulAdd(x, m, a) == MulFrom(x, m, a)

\* x divided by a small d, from the most significant digit down:
\* [q, r] with x = q * d + r.
RECURSIVE DivFrom(_, _, _, _)
DivFrom(x, d, i, qr) ==
    IF i = 0 THEN qr
    ELSE DivFrom(x, d, i - 1,
                 [q |-> [qr.q EXCEPT ![i] = (qr.r * LimbBase + x[i]) \div d],
                  r |-> (qr.r * LimbBase + x[i]) % d])
DivSmall(x, d) == DivFrom(x, d, Len(x), [q |-> x, r |-> 0])

\* x * LimbBase^j
ShiftLimbs(x, j) == [i \in 1..Len(x) |-> IF i > j THEN x[i - j] ELSE 0]

\* The low 64 bits of x: six digits of ten bits and four bits of the
\* seventh.  As an int64 the pattern is negative when bit 63 is set.
Wrap64(x) == [i \in 1..Len(x) |-> IF i < 7 THEN x[i] ELSE IF i = 7 THEN x[i] % 16 ELSE 0]
Negative64(x) == x[7] % 16 >= 8
\* x <= 2^63 - 1
FitsInt64(x) == Wrap64(x) = x /\ ~Negative64(x)

\* Go's a * b / c on int64 for small b and c: the product is exact for
\* every a of the model (|a| < 2^31), the division truncates toward zero.
QuotMul(a, b, d) ==
    IF a >= 0
    THEN Narrow(DivSmall(MulSmall(Wide(a), b), d).q)
    ELSE 0 - Narrow(DivSmall(MulSmall(Wide(0 - a), b), d).q)

\* The cpu.weight setupCgroups computes from CPU shares (lines 181-187).
CpuWeight(shares) ==
    LET weight == 1 + QuotMul(shares - 2, 9998, 262142)
    IN IF weight < 1 THEN 1 ELSE IF weight > 10000 THEN 10000 ELSE weight

\* The system calls of setupCgroups(id, o), in order: the directory of
\* each controller, and the limit files for the limits that are set.
CgOps(id, o) ==
    LET mkdir(k) == <<[op |-> "mkdir", k |-> k, file |-> "", value |-> 0]>>
        write(k, file, value) == <<[op |-> "write", k |-> k, file |-> file, value |-> value]>>
    IN IF cgv2
       THEN mkdir("unified")
            \o (IF o.Memory > 0 THEN write("unified", "memory.max", o.Memory) ELSE <<>>)
            \o (IF o.CPUShares > 0
                THEN write("unified", "cpu.weight", CpuWeight(o.CPUShares)) ELSE <<>>)
       ELSE mkdir("memory")
            \o (IF o.Memory > 0
                THEN write("memory", "memory.limit_in_bytes", o.Memory) ELSE <<>>)
            \o mkdir("cpu")
            \o (IF o.CPUShares > 0 THEN write("cpu", "cpu.shares", o.CPUShares) ELSE <<>>)

\* A faulty setup, against which C18 is tried: one whose failures are not
\* noticed.
CgFailuresIgnored(ops) == {0}

\* Where setupCgroups may fail: nowhere (0), or at one of its system calls;
\* on a read-only /sys/fs/cgroup the first one fails.
CgFailures(ops) ==
    IF "cgroup" \in broken THEN {1}
    ELSE IF faults THEN 0..Len(ops) ELSE {0}

\* setupCgroups: create the directories and write the limits; the first
\* failure returns, leaving what was made.  Fatal to Run (lines 66-70).
SetupCgroups(p) ==
    /\ pc[p] = "setupCgroups"
    /\ LET id == containerID[p]
           ops == CgOps(id, opts[p])
       IN \E k \in CgFailures(ops) :
           LET n == IF k = 0 THEN Len(ops) ELSE k - 1
               written == {i \in 1..n : ops[i].op = "write"}
           IN /\ cg' = cg \cup {<<ops[i].k, id>> : i \in {j \in 1..n : ops[j].op = "mkdir"}}
              /\ cgfiles' = {f \in cgfiles :
                                \A i \in written : <<f[1], f[2], f[3]>> # <<ops[i].k, id, ops[i].file>>}
                            \cup {<<ops[i].k, id, ops[i].file, ops[i].value>> : i \in written}
              /\ IF k = 0
                 THEN /\ Log(p, "cgroup_setup")
                      /\ Advance(p)
                      /\ UNCHANGED <<ret, hist>>
                 ELSE /\ Return(p, FALSE, "error")
                      /\ UNCHANGED trace
    /\ UNCHANGED <<envVars, images, cdir, rootfsDir, mounts, meta, cgprocs, proc, image,
                   command, opts, containerID, c, rmres, removed, cliVars, ctl, listVars,
                   auxVars>>

\* Start lines 234-267: cmd.Start() of /usr/local/bin/floka chrooted into
\* rootfs; on failure status = failed, on success Pid and status = running.
Spawn(p) ==
    /\ pc[p] = "spawn"
    /\ LET id == c[p].ID
           can == Mounted(id) /\ SelfPath \in images[Top(id)].files
       IN \E ok \in Outcomes :
            IF ok /\ can /\ "exec" \notin broken
            THEN /\ proc' = [proc EXCEPT ![PidOf(p)] = [state |-> "alive", code |-> 0]]
                 /\ c' = [c EXCEPT ![p].Pid = PidOf(p), ![p].Status = "running"]
                 /\ Log(p, "spawn")
                 /\ Advance(p)
            ELSE /\ c' = [c EXCEPT ![p].Status = "failed"]
                 /\ Goto(p, "upd_failed")
                 /\ UNCHANGED <<proc, trace>>
    /\ UNCHANGED <<envVars, diskVars, image, command, opts, containerID, ret, hist,
                   rmres, removed, cliVars, ctl, listVars,
                   cgfiles, auxVars>>

\* How many of the controllers' directories, in order, exist for id.
Attachable(id) ==
    CHOOSE n \in 0..Len(Controllers) :
        /\ \A i \in 1..n : <<Controllers[i], id>> \in cg
        /\ n < Len(Controllers) => <<Controllers[n + 1], id>> \notin cg

\* addProcessToCgroups: write the PID to cgroup.procs (v2) or to tasks of
\* memory, then cpu (v1), stopping at the first error; Start only warns
\* (lines 275-277).
AddProcessToCgroups(p) ==
    /\ pc[p] = "addProcessToCgroups"
    /\ LET id == c[p].ID
           most == Attachable(id)
       IN \E n \in (IF faults THEN 0..most ELSE {most}) :
            /\ cgprocs' = cgprocs \cup {<<Controllers[i], id, c[p].Pid>> : i \in 1..n}
            /\ IF n = Len(Controllers) THEN Log(p, "cgroup_attach") ELSE UNCHANGED trace
    /\ Advance(p)
    /\ UNCHANGED <<envVars, images, cdir, rootfsDir, mounts, meta, cg, proc, image,
                   command, opts, containerID, c, ret, hist, rmres, removed, cliVars,
                   ctl, listVars,
                   cgfiles, auxVars>>

\* The containerized command ends with some exit status.
ChildExit(p) ==
    /\ proc[PidOf(p)].state = "alive"
    /\ \E k \in ExitCodes :
        proc' = [proc EXCEPT ![PidOf(p)] = [state |-> "exited", code |-> k]]
    /\ UNCHANGED <<envVars, diskVars, supVars, removed, cliVars, ctl, listVars,
                   cgfiles, auxVars>>

\* Start lines 281-284: cmd.Wait() returns once the child has ended and reaps
\* it; then status = stopped.
Wait(p) ==
    /\ pc[p] = "wait"
    /\ proc[PidOf(p)].state = "exited"
    /\ proc' = [proc EXCEPT ![PidOf(p)].state = "reaped"]
    /\ c' = [c EXCEPT ![p].Status = "stopped"]
    /\ Advance(p)
    /\ UNCHANGED <<envVars, diskVars, image, command, opts, containerID, ret, trace,
                   hist, rmres, removed, cliVars, ctl, listVars,
                   cgfiles, auxVars>>

\* One step of Run.
RunStep(p) ==
    \/ GenerateID(p)
    \/ MkdirRootfs(p)
    \/ BindMount(p)
    \/ MkMountPoints(p)
    \/ SelfInsert(p)
    \/ UpdOpen(p)
    \/ UpdWrite(p)
    \/ SetupCgroups(p)
    \/ Spawn(p)
    \/ AddProcessToCgroups(p)
    \/ Wait(p)


\* ------------------------------------------------------- Stop and Remove
\* How an updateMetadata call made inside Stop may end: written, failed at
\* the open (file untouched) or failed at the write (file left truncated).
WriteOutcomes == IF faults THEN {"ok", "fail_open", "fail_write"} ELSE {"ok"}

\* syscall.Kill(pid, sig) finds a process: one that runs or a zombie.
Exists(pid) == pid \in Pids /\ proc[pid].state \in {"alive", "exited"}

\* Container.Stop on the object cn.  `dies` says whether the SIGTERM ends a
\* running child, `wr` how the metadata write ends.  The result carries the
\* new object and the new values of what Stop can change.
StopResult(cn, dies, wr) ==
    IF cn.Pid > 0 /\ ~Exists(cn.Pid)
    THEN \* SIGTERM and SIGKILL both fail with ESRCH: lines 451-455
         [err |-> TRUE, c |-> cn, proc |-> proc, meta |-> meta, cdir |-> cdir]
    ELSE LET cn2 == [cn EXCEPT !.Status = "stopped"]
             proc2 == IF cn.Pid > 0 /\ proc[cn.Pid].state = "alive" /\ dies
                      THEN [proc EXCEPT ![cn.Pid] = [state |-> "exited", code |-> Killed]]
                      ELSE proc
         IN [err |-> FALSE, c |-> cn2, proc |-> proc2,
             meta |-> IF wr = "ok" THEN [meta EXCEPT ![cn.ID] = Marshal(cn2)]
                      ELSE IF wr = "fail_write" THEN [meta EXCEPT ![cn.ID] = Partial]
                      ELSE meta,
             cdir |-> IF wr = "fail_open" THEN cdir ELSE [cdir EXCEPT ![cn.ID] = TRUE]]

\* A faulty cleanup, against which C5 is tried: cleanupCgroups that removes
\* the memory hierarchy's directory only, and nothing on v2.
CleanupDirsMemoryOnly(id, n) == {<<"memory", id>>} \cap CgDirs(id, n)

\* The directories cleanupCgroups has removed after n successful removals.
CleanupDirs(id, n) == CgDirs(id, n)

\* cleanupCgroups: os.RemoveAll of each controller's directory in order,
\* returning at the first error.  rmdir of a cgroup fails while a process
\* in it runs.  `want` is how many removals the system lets succeed; the
\* result is how many directories are removed.
CleanupCount(id, pr, want) ==
    LET busy(i) == \E pid \in Pids : /\ <<Controllers[i], id, pid>> \in cgprocs
                                    /\ <<Controllers[i], id>> \in cg
                                    /\ pr[pid].state = "alive"
        free == {n \in 0..Len(Controllers) : \A i \in 1..n : ~busy(i)}
    IN CHOOSE n \in free : /\ n <= want
                           /\ \A m \in free : m <= want => m <= n

\* Container.Remove on the object cn.  `cgwant` is how many cgroup removals
\* the system lets succeed, `umok` whether the unmount may succeed.
RemoveResult(cn, dies, wr, cgwant, umok) ==
    LET id == cn.ID
        s == IF cn.Status = "running"
             THEN StopResult(cn, dies, wr)
             ELSE [err |-> FALSE, c |-> cn, proc |-> proc, meta |-> meta, cdir |-> cdir]
        n == CleanupCount(id, s.proc, cgwant)
        gone == CleanupDirs(id, n)
        cg2 == cg \ gone
        cgprocs2 == {t \in cgprocs : <<t[1], t[2]>> \notin gone}
        stat == rootfsDir[id]
        unmounted == stat /\ Mounted(id) /\ umok
        mounts2 == IF unmounted
                   THEN [mounts EXCEPT ![id] = SubSeq(@, 1, Len(@) - 1)]
                   ELSE mounts
        busy == mounts2[id] # <<>>
        warn == (IF n < Len(Controllers) THEN {"cgroups"} ELSE {})
                \cup (IF stat /\ ~unmounted THEN {"unmount"} ELSE {})
    IN IF s.err
       THEN [err |-> TRUE, warn |-> {}, c |-> s.c, proc |-> s.proc, meta |-> s.meta,
             cdir |-> s.cdir, rootfsDir |-> rootfsDir, mounts |-> mounts, cg |-> cg,
             cgprocs |-> cgprocs, images |-> images]
       ELSE [err |-> busy, warn |-> warn, c |-> s.c, proc |-> s.proc,
             meta |-> [s.meta EXCEPT ![id] = NoFile],
             \* os.RemoveAll deletes what it can: a rootfs that is still a
             \* mount point cannot be removed, the files under it can.
             cdir |-> [s.cdir EXCEPT ![id] = busy],
             rootfsDir |-> [rootfsDir EXCEPT ![id] = busy],
             mounts |-> mounts2, cg |-> cg2, cgprocs |-> cgprocs2,
             images |-> IF busy
                        THEN [images EXCEPT ![mounts2[id][Len(mounts2[id])]].files = {}]
                        ELSE images]

\* The choices the system has in a Stop or Remove of cn: whether SIGTERM
\* ends the child (only if one runs), how the metadata write ends (only if
\* Stop gets to it), how many cgroup removals succeed, whether the unmount
\* can succeed (only if there is a mount).
Dies(cn) == IF cn.Pid \in Pids /\ proc[cn.Pid].state = "alive" THEN BOOLEAN ELSE {FALSE}
Writes(cn) == IF cn.Pid > 0 /\ ~Exists(cn.Pid) THEN {"ok"} ELSE WriteOutcomes
StopChoices(cn) == Dies(cn) \X Writes(cn)
CgWants(cn) ==
    IF faults /\ \E i \in 1..Len(Controllers) : <<Controllers[i], cn.ID>> \in cg
    THEN 0..Len(Controllers) ELSE {Len(Controllers)}
Unmounts(cn) == IF Mounted(cn.ID) /\ rootfsDir[cn.ID] THEN Outcomes ELSE {TRUE}
RemoveChoices(cn) ==
    (IF cn.Status = "running" THEN StopChoices(cn) ELSE {<<FALSE, "ok">>})
        \X CgWants(cn) \X Unmounts(cn)

\* The caller of Run calls Stop on the Container Run returned.
OwnStop(p) ==
    /\ pc[p] = "returned"
    /\ ret[p].cont
    /\ Len(hist[p]) < MaxOps
    /\ \E ch \in StopChoices(c[p]) :
        LET r == StopResult(c[p], ch[1], ch[2]) IN
        /\ c' = [c EXCEPT ![p] = r.c]
        /\ proc' = r.proc
        /\ meta' = r.meta
        /\ cdir' = r.cdir
    /\ hist' = [hist EXCEPT ![p] = Append(@, "Stop")]
    /\ UNCHANGED <<envVars, images, rootfsDir, mounts, cg, cgprocs, pc, image, command,
                   opts, containerID, ret, trace, rmres, removed, cliVars, ctl, listVars,
                   cgfiles, auxVars>>

\* The effect of a Remove whose result is r on the shared state.
ApplyRemove(id, r) ==
    /\ proc' = r.proc
    /\ meta' = r.meta
    /\ cdir' = r.cdir
    /\ rootfsDir' = r.rootfsDir
    /\ mounts' = r.mounts
    /\ cg' = r.cg
    /\ cgprocs' = r.cgprocs
    /\ cgfiles' = {f \in cgfiles : <<f[1], f[2]>> \in r.cg}
    /\ images' = r.images
    /\ removed' = removed \cup {id}

\* The caller of Run calls Remove on the Container Run returned.
OwnRemove(p) ==
    /\ pc[p] = "returned"
    /\ ret[p].cont
    /\ Len(hist[p]) < MaxOps
    /\ \E ch \in RemoveChoices(c[p]) :
        LET r == RemoveResult(c[p], ch[1][1], ch[1][2], ch[2], ch[3]) IN
        /\ ApplyRemove(c[p].ID, r)
        /\ c' = [c EXCEPT ![p] = r.c]
        /\ rmres' = [rmres EXCEPT ![p] = [err |-> r.err, warn |-> r.warn]]
    /\ hist' = [hist EXCEPT ![p] = Append(@, "Remove")]
    /\ UNCHANGED <<envVars, pc, image, command, opts, containerID, ret, trace,
                   cliVars, ctl, listVars, auxVars>>

\* ----------------------------------------------- another process: Load
\* The Container that Load and ListContainers build from a parsed file.
Decode(id, m) ==
    [ID |-> id, Image |-> m.Image,
     Command |-> IF "Command" \in DOMAIN m THEN m.Command ELSE <<>>,
     Status |-> m.Status,
     Pid |-> IF "Pid" \in DOMAIN m THEN m.Pid ELSE 0]

\* Load(containerID) by a process other than the supervisor; it fails, and
\* changes nothing, unless the file holds a complete JSON object.
CtlLoad(id) ==
    /\ ctl = Nil
    /\ meta[id].kind = "json"
    /\ ctl' = Decode(id, meta[id])
    /\ UNCHANGED <<envVars, diskVars, proc, supVars, removed, cliVars, listVars,
                   cgfiles, auxVars>>

CtlStop ==
    /\ ctl # Nil
    /\ \E ch \in StopChoices(ctl) :
        LET r == StopResult(ctl, ch[1], ch[2]) IN
        /\ ctl' = r.c
        /\ proc' = r.proc
        /\ meta' = r.meta
        /\ cdir' = r.cdir
    /\ UNCHANGED <<envVars, images, rootfsDir, mounts, cg, cgprocs, supVars, removed,
                   cliVars, listVars,
                   cgfiles, auxVars>>

CtlRemove ==
    /\ ctl # Nil
    /\ \E ch \in RemoveChoices(ctl) :
        LET r == RemoveResult(ctl, ch[1][1], ch[1][2], ch[2], ch[3]) IN
        /\ ApplyRemove(ctl.ID, r)
        /\ ctl' = r.c
    /\ UNCHANGED <<envVars, supVars, cliVars, listVars, auxVars>>

\* ------------------------------------------------------------------ Init
NoProc == [state |-> "none", code |-> 0]
NoOpts == [Memory |-> 0, CPUShares |-> 0]
AlpineDir == ImageFullName(Alpine, Latest)

\* The store holds alpine:latest and no nonexistent:latest; no container
\* has been made.
InitDisk ==
    /\ images = [d \in DirNames |->
                    IF d = AlpineDir
                    THEN [dir |-> TRUE, rootfs |-> TRUE, files |-> BaseFiles]
                    ELSE [dir |-> FALSE, rootfs |-> FALSE, files |-> {}]]
    /\ cdir = [i \in IDs |-> FALSE]
    /\ rootfsDir = [i \in IDs |-> FALSE]
    /\ mounts = [i \in IDs |-> <<>>]
    /\ meta = [i \in IDs |-> NoFile]
    /\ cg = {}
    /\ cgprocs = {}
    /\ cgfiles = {}
    /\ proc = [pid \in Pids |-> NoProc]
    /\ removed = {}

\* No operation on the image store has been made; no image has an
\* environment file or an image.info.
NoResult == [op |-> "none", ref |-> <<>>, file |-> <<>>, fresh |-> FALSE,
             err |-> "nil", img |-> Nil, list |-> <<>>]
StoreIdle ==
    /\ ienv = [d \in DirNames |-> <<>>]
    /\ iinfo = {}
    /\ sres = NoResult

\* No init phase is in progress.
NoInit == [pc |-> "off", command |-> <<>>, i |-> 1, mnt |-> <<>>, log |-> <<>>,
           defers |-> <<>>, cmd |-> <<>>, exit |-> <<>>]

\* No file is being parsed.
NoParse == [pc |-> "off", file |-> <<>>, edited |-> <<>>, edits |-> 0,
            res |-> Nil, res2 |-> Nil]

SupIdle ==
    /\ containerID = [p \in Sup |-> 0]
    /\ c = [p \in Sup |-> Nil]
    /\ ret = [p \in Sup |-> Nil]
    /\ trace = [p \in Sup |-> <<>>]
    /\ hist = [p \in Sup |-> <<>>]
    /\ rmres = [p \in Sup |-> Nil]
    /\ stdout = [p \in Sup |-> {}]
    /\ stderr = [p \in Sup |-> {}]
    /\ exitStatus = [p \in Sup |-> <<>>]
    /\ ctl = Nil
    /\ lpc = "idle"
    /\ lentries = <<>>
    /\ lresult = <<>>
    /\ lseen = <<>>
    /\ laborted = FALSE

\* No function is being called on its own.
NoCall == [fn |-> "none", pc |-> "off"]
\* What such a call leaves alone.
callRest == <<envVars, diskVars, proc, supVars, removed, cliVars, ctl, listVars, cgfiles,
              hostVars, argv, storeVars, ini, par>>

InitIdle ==
    /\ SupIdle
    /\ StoreIdle
    /\ ini = NoInit
    /\ par = NoParse
    /\ call = NoCall

\* No supervisor is at work: no run command line, no Run in progress.
SupOff ==
    /\ broken = {}
    /\ argv = [p \in Sup |-> <<>>]
    /\ args = [p \in Sup |-> Nil]
    /\ now = 1
    /\ faults = FALSE
    /\ cgv2 = TRUE
    /\ pc = [p \in Sup |-> "off"]
    /\ image = [p \in Sup |-> RootDir(AlpineDir)]
    /\ command = [p \in Sup |-> DefaultCommand]
    /\ opts = [p \in Sup |-> Nil]

\* The listing of ListContainers for one directory entry: the record, or
\* Nil when the file cannot be read or parsed.
ListedRecord(id) == IF meta[id].kind = "json" THEN Decode(id, meta[id]) ELSE Nil

\* One caller of the library: Run(image, command, opts), then Stop and
\* Remove in any order, while another process Loads, Stops and Removes.
Init ==
    /\ InitDisk
    /\ InitIdle
    /\ broken = {}
    /\ argv = [p \in Sup |-> <<>>]
    /\ now = MaxTime
    /\ faults = TRUE
    /\ cgv2 \in BOOLEAN
    /\ args = [p \in Sup |-> Nil]
    /\ pc = [p \in Sup |-> IF p = "s1" THEN "generateID" ELSE "off"]
    /\ image = [p \in Sup |-> RootDir(AlpineDir)]
    /\ command \in [Sup -> Commands]
    /\ command["s2"] = DefaultCommand
    /\ opts \in [Sup -> {Nil, NoOpts}]
    /\ opts["s2"] = Nil

Next ==
    \/ \E p \in Sup : RunStep(p)
    \/ \E p \in Sup : ChildExit(p)
    \/ \E p \in Sup : OwnStop(p)
    \/ \E p \in Sup : OwnRemove(p)
    \/ \E id \in IDs : CtlLoad(id)
    \/ CtlStop
    \/ CtlRemove

Spec == Init /\ [][Next]_vars


\* The same, with no system call failing for a reason outside the model.
InitNoFaults ==
    /\ InitDisk
    /\ InitIdle
    /\ broken = {}
    /\ argv = [p \in Sup |-> <<>>]
    /\ now = MaxTime
    /\ faults = FALSE
    /\ cgv2 \in BOOLEAN
    /\ args = [p \in Sup |-> Nil]
    /\ pc = [p \in Sup |-> IF p = "s1" THEN "generateID" ELSE "off"]
    /\ image = [p \in Sup |-> RootDir(AlpineDir)]
    /\ command \in [Sup -> Commands]
    /\ command["s2"] = DefaultCommand
    /\ opts \in [Sup -> {Nil, NoOpts}]
    /\ opts["s2"] = Nil

SpecNoFaults == InitNoFaults /\ [][Next]_vars

\* One caller of the library and nobody else, on a host that may be unable
\* to execute the supervisor binary in the image or to write to
\* /sys/fs/cgroup; no other system call fails.
SixtyFourMiB == [Memory |-> 64 * 1024 * 1024, CPUShares |-> 0]
InitSolo ==
    /\ InitDisk
    /\ InitIdle
    /\ now = MaxTime
    /\ faults = FALSE
    /\ cgv2 \in BOOLEAN
    /\ broken \in SUBSET {"exec", "cgroup"}
    /\ argv = [p \in Sup |-> <<>>]
    /\ args = [p \in Sup |-> Nil]
    /\ pc = [p \in Sup |-> IF p = "s1" THEN "generateID" ELSE "off"]
    /\ image = [p \in Sup |-> RootDir(AlpineDir)]
    /\ command = [p \in Sup |-> DefaultCommand]
    /\ opts \in [Sup -> {Nil, NoOpts, SixtyFourMiB}]
    /\ opts["s2"] = Nil

NextSolo ==
    \/ \E p \in Sup : RunStep(p)
    \/ \E p \in Sup : ChildExit(p)
    \/ \E p \in Sup : OwnStop(p)
    \/ \E p \in Sup : OwnRemove(p)

SpecSolo == InitSolo /\ [][NextSolo]_vars

\* ---------------------------------------------------------- ListContainers
\* os.ReadDir: the directory entries, sorted by name.
RECURSIVE SortedSeq(_)
SortedSeq(S) ==
    IF S = {} THEN <<>>
    ELSE LET m == CHOOSE x \in S : \A y \in S : x <= y
         IN <<m>> \o SortedSeq(S \ {m})

\* A faulty listing, against which C9 is tried: one that gives up at the
\* first entry it cannot read or parse.
ListOutcomeAbort(m) == IF m.kind = "json" THEN "append" ELSE "abort"

\* What the loop body of ListContainers does with the file of an entry:
\* a read error or a parse error skips the entry (lines 320-330); the type
\* assertions of lines 344 and 346 panic on a missing Image or Status.
ListOutcome(m) ==
    IF m.kind = "absent" THEN "skip"
    ELSE IF m.kind = "partial" THEN "skip"
    ELSE IF "Image" \notin DOMAIN m \/ "Status" \notin DOMAIN m THEN "panic"
    ELSE "append"

\* ListContainers lines 299-308: the snapshot of the entries of containers/.
ListStart ==
    /\ lpc = "idle"
    /\ lentries' = SortedSeq({id \in IDs : cdir[id]})
    /\ lpc' = IF lentries' = <<>> THEN "done" ELSE "loop"
    /\ UNCHANGED <<envVars, diskVars, proc, supVars, removed, cliVars, ctl,
                   lresult, lseen, laborted,
                   cgfiles, auxVars>>

\* ListContainers lines 312-355: one iteration, reading one entry's file as
\* it is at that time.
ListRead ==
    /\ lpc = "loop"
    /\ LET id == lentries[Len(lseen) + 1]
           m == meta[id]
           out == ListOutcome(m)
       IN /\ lseen' = Append(lseen, m)
          /\ lresult' = IF out = "append" THEN Append(lresult, Decode(id, m)) ELSE lresult
          /\ laborted' = (out \in {"panic", "abort"})
          /\ lpc' = IF laborted' \/ Len(lseen') = Len(lentries) THEN "done" ELSE "loop"
    /\ UNCHANGED <<envVars, diskVars, proc, supVars, removed, cliVars, ctl, lentries,
                   cgfiles, auxVars>>

\* Two callers of the library run concurrently, each Run followed by
\* Remove, while a third process lists the containers.
InitConc ==
    /\ InitDisk
    /\ InitIdle
    /\ broken = {}
    /\ argv = [p \in Sup |-> <<>>]
    /\ now = 1
    /\ faults = FALSE
    /\ cgv2 = TRUE
    /\ args = [p \in Sup |-> Nil]
    /\ pc = [p \in Sup |-> "generateID"]
    /\ image = [p \in Sup |-> RootDir(AlpineDir)]
    /\ command = [p \in Sup |-> DefaultCommand]
    /\ opts = [p \in Sup |-> IF p = "s1" THEN NoOpts ELSE Nil]

NextConc ==
    \/ \E p \in Sup : RunStep(p)
    \/ \E p \in Sup : ChildExit(p)
    \/ \E p \in Sup : OwnRemove(p)
    \/ ListStart
    \/ ListRead

SpecConc == InitConc /\ [][NextConc]_vars

\* -------------------------------------------------------- the run command
\* fimage.Pull(name, tag): an image whose directory exists is returned;
\* otherwise the rootfs directory is created (lines 60-63) and the not-found
\* error returned.  The result: the error kind and the store afterwards.
Pull(name, tag, ok) ==
    LET dir == ImageFullName(name, tag) IN
    IF dir \in DOMAIN images /\ images[dir].dir
    THEN [err |-> "nil", RootDir |-> RootDir(dir), images |-> images]
    ELSE IF ~ok
    THEN [err |-> "mkdir", RootDir |-> <<>>, images |-> images]
    ELSE [err |-> "not found locally", RootDir |-> <<>>,
          images |-> IF dir \in DOMAIN images
                     THEN [images EXCEPT ![dir] = [dir |-> TRUE, rootfs |-> TRUE, files |-> @.files]]
                     ELSE images]

\* ---- the command line of run
\* strings.HasPrefix(arg, "-")
IsFlag(arg) == Len(arg) > 0 /\ arg[1] = "-"

\* main lines 61-71: the position of the first argument without a leading
\* "-" (0 if there is none) and the arguments before it.
FirstPositional(rem) ==
    IF \E i \in 1..Len(rem) : ~IsFlag(rem[i])
    THEN CHOOSE i \in 1..Len(rem) : ~IsFlag(rem[i]) /\ \A j \in 1..(i - 1) : IsFlag(rem[j])
    ELSE 0
OptArgs(rem) ==
    IF FirstPositional(rem) = 0 THEN rem ELSE SubSeq(rem, 1, FirstPositional(rem) - 1)

\* strconv.ParseInt of the decimal numerals the arguments use; 0 - 1 stands
\* for a syntax error.
ParseInt(str) ==
    IF Len(str) # 1 THEN 0 - 1
    ELSE CASE str[1] = "64" -> 64
           [] str[1] = "512" -> 512
           [] OTHER -> 0 - 1

\* Position of the first "=" of a flag argument, 0 if none.
EqualsAt(arg) ==
    IF \E i \in 1..Len(arg) : arg[i] = "="
    THEN CHOOSE i \in 1..Len(arg) : arg[i] = "=" /\ \A j \in 1..(i - 1) : arg[j] # "="
    ELSE 0

\* flag.FlagSet.Parse of the run flags -m (string) and -c (int): a flag
\* without "=" takes the next argument as its value; an unknown flag, a
\* missing value or a bad integer is an error.
RECURSIVE ParseFlags(_, _)
ParseFlags(rest, acc) ==
    IF rest = <<>> \/ ~acc.ok THEN acc
    ELSE LET arg == Head(rest)
             eq == EqualsAt(arg)
             name == IF eq = 0 THEN Tail(arg) ELSE SubSeq(arg, 2, eq - 1)
             hasValue == eq # 0 \/ Len(rest) > 1
             value == IF eq # 0 THEN SubSeq(arg, eq + 1, Len(arg))
                      ELSE IF Len(rest) > 1 THEN rest[2] ELSE <<>>
             after == IF eq # 0 THEN Tail(rest)
                      ELSE IF Len(rest) > 1 THEN Tail(Tail(rest)) ELSE <<>>
         IN IF name = <<"m">> /\ hasValue
            THEN ParseFlags(after, [acc EXCEPT !.m = value])
            ELSE IF name = <<"c">> /\ hasValue /\ ParseInt(value) >= 0
            THEN ParseFlags(after, [acc EXCEPT !.c = ParseInt(value)])
            ELSE [acc EXCEPT !.ok = FALSE]

\* main, case "run" (lines 48-89): split the arguments into options, IMAGE
\* and command; a flag error ends the process with status 2 and a message on
\* standard error (flag.ExitOnError).
CliArgs(p) ==
    /\ pc[p] = "cli_args"
    /\ LET rem == argv[p]
           fp == FirstPositional(rem)
           imageArgPos == IF fp = 0 THEN 0 ELSE fp - 1
           flags == ParseFlags(OptArgs(rem), [ok |-> TRUE, m |-> <<>>, c |-> 0])
       IN IF rem = <<>>
          THEN /\ stdout' = [stdout EXCEPT ![p] = @ \cup {"Error: 'run' requires at least 1 argument"}]
               /\ exitStatus' = [exitStatus EXCEPT ![p] = <<1>>]
               /\ Goto(p, "exited")
               /\ UNCHANGED <<args, stderr>>
          ELSE IF ~flags.ok
          THEN /\ stderr' = [stderr EXCEPT ![p] = @ \cup {"flag error"}]
               /\ exitStatus' = [exitStatus EXCEPT ![p] = <<2>>]
               /\ Goto(p, "exited")
               /\ UNCHANGED <<args, stdout>>
          ELSE /\ args' = [args EXCEPT ![p] =
                      [imageName |-> rem[imageArgPos + 1],
                       command |-> SubSeq(rem, imageArgPos + 2, Len(rem)),
                       memLimit |-> flags.m, cpuShares |-> flags.c]]
               /\ Goto(p, "cli_opts")
               /\ UNCHANGED <<stdout, stderr, exitStatus>>
    /\ UNCHANGED <<envVars, diskVars, proc, image, command, opts, containerID, c, ret,
                   trace, hist, rmres, removed, ctl, listVars, cgfiles, auxVars>>

\* ---- parseMemoryLimit
\* strings.ToLower on the letters of a limit.
LowerChar(ch) == CASE ch = "K" -> "k" [] ch = "M" -> "m" [] ch = "G" -> "g" [] OTHER -> ch
ToLower(str) == [i \in DOMAIN str |-> LowerChar(str[i])]

\* The value of a decimal digit, 0 - 1 for any other character.
DigitVal(ch) ==
    CASE ch = "0" -> 0 [] ch = "1" -> 1 [] ch = "2" -> 2 [] ch = "3" -> 3 [] ch = "4" -> 4
      [] ch = "5" -> 5 [] ch = "6" -> 6 [] ch = "7" -> 7 [] ch = "8" -> 8 [] ch = "9" -> 9
      [] OTHER -> 0 - 1

RECURSIVE Accumulate(_, _)
Accumulate(str, acc) ==
    IF str = <<>> THEN acc ELSE Accumulate(Tail(str), MulAdd(acc, 10, DigitVal(Head(str))))

\* strconv.ParseInt(str, 10, 64) of an unsigned numeral: a syntax error for
\* an empty string or a character that is no digit, a range error above
\* 2^63 - 1.
ParseInt64(str) ==
    IF str = <<>> \/ \E i \in DOMAIN str : DigitVal(str[i]) < 0
    THEN [ok |-> FALSE, value |-> Zero]
    ELSE IF ~FitsInt64(Accumulate(str, Zero))
    THEN [ok |-> FALSE, value |-> Zero]
    ELSE [ok |-> TRUE, value |-> Accumulate(str, Zero)]

\* parseMemoryLimit on a string of characters (lines 370-392): lower case,
\* a suffix k, m or g, a decimal number; value * multiplier is an int64
\* product, of which the low 64 bits are kept.
ParseMemoryLimitChars(limit) ==
    LET lower == ToLower(limit)
        last == IF lower = <<>> THEN "" ELSE lower[Len(lower)]
        exp == CASE last = "k" -> 1 [] last = "m" -> 2 [] last = "g" -> 3 [] OTHER -> 0
        digits == IF exp = 0 THEN lower ELSE SubSeq(lower, 1, Len(lower) - 1)
        parsed == ParseInt64(digits)
    IN  IF ~parsed.ok THEN parsed
        ELSE [ok |-> TRUE, value |-> Wrap64(ShiftLimbs(parsed.value, exp))]

\* The characters of the chunks of a command-line argument.
Spell(chunk) ==
    CASE chunk = "64" -> <<"6", "4">>
      [] chunk = "512" -> <<"5", "1", "2">>
      [] chunk = "abc" -> <<"a", "b", "c">>
      [] OTHER -> <<chunk>>
RECURSIVE SpellAll(_)
SpellAll(str) == IF str = <<>> THEN <<>> ELSE Spell(Head(str)) \o SpellAll(Tail(str))

\* parseMemoryLimit on an argument of the command line.  The result is the
\* number of bytes, or 0 - 1 for an error.
ParseMemoryLimit(limit) ==
    IF ~ParseMemoryLimitChars(SpellAll(limit)).ok
    THEN 0 - 1
    ELSE Narrow(ParseMemoryLimitChars(SpellAll(limit)).value)

\* One call of parseMemoryLimit on its own, on the decimal rendering of a
\* natural number followed by a suffix.
Num(digits) == [i \in 1..Limbs |-> IF i <= Len(digits) THEN digits[i] ELSE 0]
MemNumbers ==
    { Wide(0), Wide(1), Wide(64), Wide(1023), Wide(1024),
      Num(<<1023, 1023, 1023, 7>>),                      \* 2^33 - 1
      Num(<<0, 0, 0, 8>>),                               \* 2^33
      Num(<<0, 0, 0, 16>>),                              \* 2^34
      Num(<<0, 0, 0, 0, 8>>),                            \* 2^43
      Num(<<0, 0, 0, 0, 0, 8>>),                         \* 2^53
      Num(<<1023, 1023, 1023, 1023, 1023, 1023, 7>>) }   \* 2^63 - 1
DigitChar == <<"0", "1", "2", "3", "4", "5", "6", "7", "8", "9">>
RECURSIVE RenderFrom(_)
RenderFrom(n) ==
    IF n = Zero THEN <<>>
    ELSE RenderFrom(DivSmall(n, 10).q) \o <<DigitChar[DivSmall(n, 10).r + 1]>>
Render(n) == IF n = Zero THEN <<"0">> ELSE RenderFrom(n)
Suffixes == {<<>>, <<"k">>, <<"m">>, <<"g">>, <<"K">>, <<"M">>, <<"G">>}

MemParse ==
    /\ call.fn = "parseMemoryLimit" /\ call.pc = "called"
    /\ call' = [call EXCEPT !.pc = "returned", !.res = ParseMemoryLimitChars(call.limit)]
    /\ UNCHANGED callRest

InitMem ==
    /\ InitDisk
    /\ SupIdle
    /\ StoreIdle
    /\ ini = NoInit
    /\ par = NoParse
    /\ SupOff
    /\ \E n \in MemNumbers, x \in Suffixes :
         call = [fn |-> "parseMemoryLimit", pc |-> "called", n |-> n, suffix |-> x,
                 limit |-> Render(n) \o x, res |-> Nil]

NextMem == MemParse

SpecMem == InitMem /\ [][NextMem]_vars


\* runContainerWithOpts lines 304-324: the ContainerOpts from -m and -c, the
\* default command.
CliOpts(p) ==
    /\ pc[p] = "cli_opts"
    /\ LET bytes == IF args[p].memLimit = <<>> THEN 0 ELSE ParseMemoryLimit(args[p].memLimit)
       IN IF bytes < 0
          THEN /\ stdout' = [stdout EXCEPT ![p] = @ \cup {"Error parsing memory limit"}]
               /\ exitStatus' = [exitStatus EXCEPT ![p] = <<1>>]
               /\ Goto(p, "exited")
               /\ UNCHANGED <<opts, command>>
          ELSE /\ opts' = [opts EXCEPT ![p] =
                      [Memory |-> bytes,
                       CPUShares |-> IF args[p].cpuShares > 0 THEN args[p].cpuShares ELSE 0]]
               /\ command' = [command EXCEPT ![p] =
                      IF Len(args[p].command) = 0 THEN DefaultCommand ELSE args[p].command]
               /\ Goto(p, "cli_pull")
               /\ UNCHANGED <<stdout, exitStatus>>
    /\ UNCHANGED <<envVars, diskVars, proc, image, containerID, c, ret, trace, hist,
                   rmres, removed, args, stderr, ctl, listVars, cgfiles, auxVars>>

\* runContainerWithOpts lines 326-336: the Pull with tag "latest", the
\* message and os.Exit(1) when the Pull fails.  fmt.Printf writes to
\* standard output.
CliPull(p) ==
    /\ pc[p] = "cli_pull"
    /\ \E ok \in Outcomes :
        LET r == Pull(args[p].imageName, Latest, ok) IN
        /\ images' = r.images
        /\ IF r.err = "nil"
           THEN /\ image' = [image EXCEPT ![p] = r.RootDir]
                /\ Goto(p, "generateID")
                /\ UNCHANGED <<stdout, exitStatus>>
           ELSE /\ stdout' = [stdout EXCEPT ![p] = @ \cup
                        {IF r.err = "not found locally"
                         THEN "Error: Image not found locally"
                         ELSE "Error preparing image"}]
                /\ exitStatus' = [exitStatus EXCEPT ![p] = <<1>>]
                /\ Goto(p, "exited")
                /\ UNCHANGED image
    /\ UNCHANGED <<envVars, cdir, rootfsDir, mounts, meta, cg, cgprocs, proc, command, opts,
                   containerID, c, ret, trace, hist, rmres, removed, args, stderr,
                   ctl, listVars,
                   cgfiles, auxVars>>

\* runContainerWithOpts after container.Run returned (lines 339-367): on an
\* error the message, a Remove if there is a Container, and os.Exit(1);
\* otherwise the deferred Remove and the return from main, exit status 0.
CliFinish(p) ==
    /\ pc[p] = "returned"
    /\ IF ret[p].cont
       THEN \E ch \in RemoveChoices(c[p]) :
                LET r == RemoveResult(c[p], ch[1][1], ch[1][2], ch[2], ch[3]) IN
                /\ ApplyRemove(c[p].ID, r)
                /\ c' = [c EXCEPT ![p] = r.c]
                /\ rmres' = [rmres EXCEPT ![p] = [err |-> r.err, warn |-> r.warn]]
       ELSE UNCHANGED <<proc, meta, cdir, rootfsDir, mounts, cg, cgprocs, cgfiles,
                        images, removed, c, rmres>>
    /\ stdout' = [stdout EXCEPT ![p] =
            IF ret[p].err # "nil" THEN @ \cup {"Error running container"} ELSE @]
    /\ exitStatus' = [exitStatus EXCEPT ![p] = IF ret[p].err # "nil" THEN <<1>> ELSE <<0>>]
    /\ Goto(p, "exited")
    /\ UNCHANGED <<envVars, image, command, opts, containerID, ret, trace, hist,
                   args, stderr, ctl, listVars, auxVars>>

\* The argument vectors tried: plain runs, the memory and CPU options in
\* both spellings, an invalid limit.
Argvs ==
    LET m == <<"-", "m">>
        m64 == <<"-", "m", "=", "64", "m">>
        true == <<"/bin/true">>
    IN { <<Alpine>>,
         <<Alpine, <<"/bin/sh">>>>,
         <<Alpine, <<"/bin/echo">>, <<BadByte>>>>,
         <<Nonexistent, true>>,
         <<AlpineDir, true>>,
         <<m, <<"64", "m">>, Alpine, true>>,
         <<m64, Alpine, true>>,
         <<<<"-", "c", "=", "512">>, Alpine>>,
         <<<<"-", "m", "=", "abc">>, Alpine>> }

\* One `run [OPTIONS] IMAGE [CMD...]` process.
InitRun ==
    /\ InitDisk
    /\ InitIdle
    /\ broken = {}
    /\ now = MaxTime
    /\ faults = TRUE
    /\ cgv2 \in BOOLEAN
    /\ pc = [p \in Sup |-> IF p = "s1" THEN "cli_args" ELSE "off"]
    /\ \E a \in Argvs : argv = [p \in Sup |-> IF p = "s1" THEN a ELSE <<>>]
    /\ args = [p \in Sup |-> Nil]
    /\ image = [p \in Sup |-> <<>>]
    /\ command = [p \in Sup |-> <<>>]
    /\ opts = [p \in Sup |-> Nil]

NextRun ==
    \/ \E p \in Sup : CliArgs(p)
    \/ \E p \in Sup : CliOpts(p)
    \/ \E p \in Sup : CliPull(p)
    \/ \E p \in Sup : RunStep(p)
    \/ \E p \in Sup : ChildExit(p)
    \/ \E p \in Sup : CliFinish(p)

SpecRun == InitRun /\ [][NextRun]_vars

\* ------------------------------------------------------- the ps command
\* ListContainers with nothing else at work: the records of the entries of
\* containers/ in name order; a panic ends the process at that entry.
RECURSIVE ListFrom(_)
ListFrom(entries) ==
    IF entries = <<>> THEN <<>>
    ELSE LET out == ListOutcome(meta[Head(entries)]) IN
         IF out = "panic" THEN <<>>
         ELSE (IF out = "append" THEN <<Decode(Head(entries), meta[Head(entries)])>> ELSE <<>>)
              \o ListFrom(Tail(entries))

\* strings.Join(cont.Command, " "); the commands of the model are shorter
\* than the 20 bytes from which ps cuts the text.
RECURSIVE JoinSpace(_)
JoinSpace(q) ==
    IF q = <<>> THEN <<>>
    ELSE IF Len(q) = 1 THEN Head(q)
    ELSE Head(q) \o <<" ">> \o JoinSpace(Tail(q))

\* main, case "ps" (lines 145-167): one row per container listed.
PsRow(cont) ==
    [ID |-> cont.ID, Image |-> cont.Image, Command |-> JoinSpace(cont.Command),
     Status |-> cont.Status]

\* A ps process, started after the run process has ended.
PsCommand ==
    /\ call.fn = "ps" /\ call.pc = "called"
    /\ exitStatus["s1"] # <<>>
    /\ call' = [call EXCEPT
                   !.pc = "returned",
                   !.res = [i \in DOMAIN ListFrom(SortedSeq({id \in IDs : cdir[id]})) |->
                               PsRow(ListFrom(SortedSeq({id \in IDs : cdir[id]}))[i])]]
    /\ UNCHANGED callRest

\* One run process, then one ps process; no system call fails for a
\* reason outside the model.
InitPs ==
    /\ InitDisk
    /\ SupIdle
    /\ StoreIdle
    /\ ini = NoInit
    /\ par = NoParse
    /\ call = [fn |-> "ps", pc |-> "called", res |-> <<>>]
    /\ broken = {}
    /\ now = MaxTime
    /\ faults = FALSE
    /\ cgv2 \in BOOLEAN
    /\ pc = [p \in Sup |-> IF p = "s1" THEN "cli_args" ELSE "off"]
    /\ \E a \in Argvs : argv = [p \in Sup |-> IF p = "s1" THEN a ELSE <<>>]
    /\ args = [p \in Sup |-> Nil]
    /\ image = [p \in Sup |-> <<>>]
    /\ command = [p \in Sup |-> <<>>]
    /\ opts = [p \in Sup |-> Nil]

NextPs ==
    \/ \E p \in Sup : CliArgs(p)
    \/ \E p \in Sup : CliOpts(p)
    \/ \E p \in Sup : CliPull(p)
    \/ \E p \in Sup : RunStep(p)
    \/ \E p \in Sup : ChildExit(p)
    \/ \E p \in Sup : CliFinish(p)
    \/ PsCommand

SpecPs == InitPs /\ [][NextPs]_vars

\* ========================================================= the image store
\* ---- strings of the build file and of the parser
\* strings.TrimSpace, for the one white-space character the lines use.
RECURSIVE TrimLeft(_)
TrimLeft(s) == IF s # <<>> /\ Head(s) = " " THEN TrimLeft(Tail(s)) ELSE s
RECURSIVE TrimRight(_)
TrimRight(s) ==
    IF s # <<>> /\ s[Len(s)] = " " THEN TrimRight(SubSeq(s, 1, Len(s) - 1)) ELSE s
TrimSpace(s) == TrimRight(TrimLeft(s))

\* strings.Index for a one-character separator: 0 when it does not occur.
IndexOf(s, sep) ==
    IF \E i \in 1..Len(s) : s[i] = sep
    THEN CHOOSE i \in 1..Len(s) : s[i] = sep /\ \A j \in 1..(i - 1) : s[j] # sep
    ELSE 0

\* strings.SplitN(s, sep, 2)
SplitN2(s, sep) ==
    IF IndexOf(s, sep) = 0
    THEN <<s>>
    ELSE <<SubSeq(s, 1, IndexOf(s, sep) - 1), SubSeq(s, IndexOf(s, sep) + 1, Len(s))>>

\* strings.ToUpper, on the words the build files use.
UpperChunk(ch) ==
    CASE ch = "from" -> "FROM"
      [] ch = "run" -> "RUN"
      [] ch = "env" -> "ENV"
      [] ch = "copy" -> "COPY"
      [] OTHER -> ch
ToUpper(s) == [i \in DOMAIN s |-> UpperChunk(s[i])]

\* ---- GetImagesFromLocalStorage
\* os.ReadDir("images") returns the entries sorted by name.
DirByName == <<AlpineDir, Demo, DemoDir, ImageFullName(Nonexistent, Latest)>>

\* Lines 107-118: the name and the tag a directory name is read as.
NameOf(fullName) ==
    IF IndexOf(fullName, ":") = 0 THEN fullName ELSE SplitN2(fullName, ":")[1]
TagOf(fullName) ==
    IF IndexOf(fullName, ":") = 0 THEN Latest ELSE SplitN2(SplitN2(fullName, ":")[2], ":")[1]

ImageOf(fullName) ==
    [Name |-> NameOf(fullName), Tag |-> TagOf(fullName), RootDir |-> RootDir(fullName)]

\* Every directory of images/ whose rootfs exists is listed (lines 102-139).
StoredDir(d) == images[d].dir /\ images[d].rootfs
RECURSIVE ImagesFrom(_)
ImagesFrom(dirs) ==
    IF dirs = <<>> THEN <<>>
    ELSE (IF StoredDir(Head(dirs)) THEN <<ImageOf(Head(dirs))>> ELSE <<>>)
         \o ImagesFrom(Tail(dirs))
GetImagesFromLocalStorage == ImagesFrom(DirByName)

\* ---- Build
FromScratch == <<"FROM", " ", "scratch">>
EnvGreeting == <<"ENV", " ", "GREETING", "=", "hi">>
CopyHosts == <<"COPY", " ", "hosts", " ", "/etc/hosts">>
CopyMissing == <<"copy", " ", "absent", " ", "/hello">>
Buildfiles ==
    { <<FromScratch, EnvGreeting>>,
      <<FromScratch>>,
      <<FromScratch, <<>>, <<"#", " ", "hosts">>, CopyHosts, <<" ", " ">> \o EnvGreeting \o <<" ">>>>,
      <<FromScratch, <<"run", " ", "true">>, CopyMissing>>,
      <<FromScratch, <<"CMD", " ", "/bin/sh">>>>,
      <<FromScratch, <<"ADD", " ", "hosts", " ", "/etc/hosts">>>>,
      <<FromScratch, <<"RUN">>>> }

\* Files of the build context (os.Open(src), lines 238-241).
HostFiles == {<<"hosts">>}
\* filepath.Join(rootDir, dest) and the directories MkdirAll makes for it.
PathIn(dest) == IF dest = <<"/etc/hosts">> THEN "etc/hosts" ELSE "hello"
DirsFor(dest) == IF dest = <<"/etc/hosts">> THEN {"etc"} ELSE {}

\* One line of the loop of lines 198-280, on the rootfs built so far:
\* [files, env, err].
BuildLine(st, raw) ==
    LET line == TrimSpace(raw)
        parts == SplitN2(line, " ")
        copyParts == SplitN2(parts[2], " ")
        envParts == SplitN2(parts[2], "=")
    IN  IF st.err # "nil" \/ line = <<>> \/ line[1] = "#"
        THEN st
        ELSE IF Len(parts) < 2
        THEN [st EXCEPT !.err = "invalid instruction"]
        ELSE IF ToUpper(parts[1]) \in {<<"FROM">>, <<"RUN">>}
        THEN st
        ELSE IF ToUpper(parts[1]) = <<"COPY">>
        THEN IF Len(copyParts) # 2
             THEN [st EXCEPT !.err = "invalid COPY"]
             ELSE IF copyParts[1] \notin HostFiles
             THEN [st EXCEPT !.files = @ \cup DirsFor(copyParts[2]),
                             !.err = "open source file"]
             ELSE [st EXCEPT !.files = @ \cup DirsFor(copyParts[2]) \cup {PathIn(copyParts[2])}]
        ELSE IF ToUpper(parts[1]) = <<"ENV">>
        THEN IF Len(envParts) # 2
             THEN [st EXCEPT !.err = "invalid ENV"]
             ELSE IF "etc" \notin st.files
             THEN [st EXCEPT !.err = "open environment file"]
             ELSE [st EXCEPT !.files = @ \cup {"etc/environment"},
                             !.env = Append(@, <<envParts[1], envParts[2]>>)]
        ELSE [st EXCEPT !.err = "unknown instruction"]

RECURSIVE BuildLines(_, _)
BuildLines(st, lines) ==
    IF lines = <<>> THEN st ELSE BuildLines(BuildLine(st, Head(lines)), Tail(lines))

\* Build(flokafilePath, tag), lines 171-315: the error, the image returned
\* and what images/<tag> holds afterwards.
Build(lines, tag) ==
    LET st == BuildLines([files |-> {}, env |-> <<>>, err |-> "nil"], lines) IN
    IF images[tag].dir
    THEN [err |-> "already exists", img |-> Nil, dir |-> images[tag],
          env |-> ienv[tag], info |-> tag \in iinfo]
    ELSE [err |-> st.err,
          img |-> IF st.err = "nil" THEN ImageOf(tag) ELSE Nil,
          dir |-> [dir |-> TRUE, rootfs |-> TRUE, files |-> st.files],
          env |-> st.env,
          info |-> st.err = "nil"]

\* ---- the operations of a user of the store
\* What the operations of the store leave alone.
storeRest == <<envVars, cdir, rootfsDir, mounts, meta, cg, cgprocs, proc, supVars,
               removed, cliVars, ctl, listVars, cgfiles, hostVars, argv, ini, par, call>>
Refs == {<<Alpine, Latest>>, <<Nonexistent, Latest>>, <<Demo, V1>>}

StorePull(name, tag) ==
    LET r == Pull(name, tag, TRUE) IN
    /\ images' = r.images
    /\ sres' = [NoResult EXCEPT !.op = "pull", !.ref = ImageFullName(name, tag),
                                !.fresh = ~images[ImageFullName(name, tag)].dir,
                                !.err = r.err,
                                !.img = IF r.err = "nil"
                                        THEN [Name |-> name, Tag |-> tag, RootDir |-> r.RootDir]
                                        ELSE Nil]
    /\ UNCHANGED <<ienv, iinfo, storeRest>>

StoreList ==
    /\ sres' = [NoResult EXCEPT !.op = "list", !.list = GetImagesFromLocalStorage]
    /\ UNCHANGED <<images, ienv, iinfo, storeRest>>

StoreBuild(lines, tag) ==
    LET r == Build(lines, tag) IN
    /\ images' = [images EXCEPT ![tag] = r.dir]
    /\ ienv' = [ienv EXCEPT ![tag] = r.env]
    /\ iinfo' = IF r.info THEN iinfo \cup {tag} ELSE iinfo \ {tag}
    /\ sres' = [NoResult EXCEPT !.op = "build", !.ref = tag, !.file = lines,
                                !.fresh = ~images[tag].dir,
                                !.err = r.err, !.img = r.img]
    /\ UNCHANGED storeRest

\* The image records a caller holds: what the last operation returned.
Returned == (IF sres.img = Nil THEN {} ELSE {sres.img}) \cup {sres.list[i] : i \in DOMAIN sres.list}

\* img.Remove(), lines 335-341, on an image a Pull, a Build or a listing
\* returned: os.RemoveAll("images/<Name>:<Tag>").
StoreRemove(img) ==
    LET d == ImageFullName(img.Name, img.Tag) IN
    /\ img \in Returned
    /\ images' = [x \in DirNames |->
                    IF x = d THEN [dir |-> FALSE, rootfs |-> FALSE, files |-> {}]
                    ELSE images[x]]
    /\ ienv' = [x \in DirNames |-> IF x = d THEN <<>> ELSE ienv[x]]
    /\ iinfo' = iinfo \ {d}
    /\ sres' = [NoResult EXCEPT !.op = "remove", !.ref = d]
    /\ UNCHANGED storeRest


InitStore ==
    /\ InitDisk
    /\ InitIdle
    /\ SupOff

NextStore ==
    \/ \E r \in Refs : StorePull(r[1], r[2])
    \/ StoreList
    \/ \E f \in Buildfiles, t \in DirNames : StoreBuild(f, t)
    \/ \E d \in DirNames : StoreRemove(ImageOf(d))

SpecStore == InitStore /\ [][NextStore]_vars

\* ========================================================= the init phase
\* runContainerized(command), the process `containerize` inside the chroot.
\* ini.mnt is the mount table of the process (targets, oldest first),
\* ini.log the mount, unmount and exec calls made so far with their
\* outcome, ini.defers the stack of deferred unmounts.
MountTargets == <<"/proc", "/sys", "/dev">>
DevPts == "/dev/pts"

\* The targets the loop of lines 438-440 unmounts when a mount has failed:
\* mounts[i].target for i = len(mounts)-1 down to 0.
RollbackForward == <<"/proc", "/sys", "/dev">>
RollbackTargets == [i \in 1..Len(MountTargets) |-> MountTargets[Len(MountTargets) + 1 - i]]

\* The three defer statements of lines 445-447, in the order they are made.
Deferred == <<"/dev", "/sys", "/proc">>

\* syscall.Unmount(target, MNT_DETACH): detaches the target if it is
\* mounted and fails (EINVAL) if it is not.
Unmount(st, target) ==
    [st EXCEPT !.mnt = SelectSeq(@, LAMBDA t : t # target),
               !.log = Append(@, [op |-> "umount", target |-> target,
                                  ok |-> \E i \in DOMAIN st.mnt : st.mnt[i] = target])]

\* os.Exit(code): the process ends at once; deferred calls do not run.
Exit(st, code) == [st EXCEPT !.pc = "exited", !.exit = <<code % 256>>]

iniRest == <<envVars, diskVars, proc, supVars, removed, cliVars, ctl, listVars, cgfiles,
             hostVars, argv, storeVars, par, call>>

\* Lines 435-444: the next mount of the loop.
InitMount ==
    /\ ini.pc = "mount"
    /\ \E ok \in BOOLEAN :
         LET target == MountTargets[ini.i]
             logged == [ini EXCEPT !.log = Append(@, [op |-> "mount", target |-> target, ok |-> ok])]
         IN  ini' = IF ~ok
                    THEN [logged EXCEPT !.pc = "rollback", !.i = 1]
                    ELSE IF ini.i < Len(MountTargets)
                    THEN [logged EXCEPT !.mnt = Append(@, target), !.i = @ + 1]
                    ELSE [logged EXCEPT !.mnt = Append(@, target), !.pc = "devpts",
                                        !.defers = Deferred]
    /\ UNCHANGED iniRest

\* Lines 438-441: the unmounts after a failed mount, then os.Exit(1).
InitRollback ==
    /\ ini.pc = "rollback"
    /\ ini' = IF ini.i <= Len(RollbackTargets)
              THEN [Unmount(ini, RollbackTargets[ini.i]) EXCEPT !.i = @ + 1]
              ELSE Exit(ini, 1)
    /\ UNCHANGED iniRest

\* Lines 449-463: the hostname (its error is ignored), then /dev/pts: a
\* failure to create or to mount it is a warning.
InitDevPts ==
    /\ ini.pc = "devpts"
    /\ \E mkdir \in BOOLEAN, ok \in BOOLEAN :
         ini' = IF ~mkdir
                THEN [ini EXCEPT !.pc = "exec"]
                ELSE IF ~ok
                THEN [ini EXCEPT !.pc = "exec",
                                 !.log = Append(@, [op |-> "mount", target |-> DevPts, ok |-> FALSE])]
                ELSE [ini EXCEPT !.pc = "exec",
                                 !.mnt = Append(@, DevPts),
                                 !.defers = Append(@, DevPts),
                                 !.log = Append(@, [op |-> "mount", target |-> DevPts, ok |-> TRUE])]
    /\ UNCHANGED iniRest

\* Lines 476-496: bash is looked for at /bin/bash.
CmdToExec(cmd, hasBash) ==
    IF cmd[1] = <<"bash">> /\ hasBash THEN <<"/bin/bash">> ELSE cmd[1]

\* Lines 465-467 and 518-543: the command is run and waited for.  It may
\* fail to start, end with an exit code, or be killed by a signal
\* (ExitCode() is then -1).  A non-zero end is os.Exit(code); after a zero
\* exit the function returns.
InitExec ==
    /\ ini.pc = "exec"
    /\ \E started \in BOOLEAN, hasBash \in BOOLEAN, code \in ExitCodes \cup {Killed} :
         LET ran == [op |-> "exec", target |-> CmdToExec(ini.command, hasBash)[1], ok |-> started] IN
         ini' = IF Len(ini.command) = 0
                THEN Exit(ini, 1)
                ELSE IF ~started
                THEN Exit([ini EXCEPT !.log = Append(@, ran)], 1)
                ELSE IF code # 0
                THEN Exit([ini EXCEPT !.log = Append(@, ran), !.cmd = <<code>>], code)
                ELSE [ini EXCEPT !.log = Append(@, ran), !.cmd = <<code>>, !.pc = "return"]
    /\ UNCHANGED iniRest

\* The return of runContainerized: the deferred unmounts run, the last
\* deferred first; main then ends and the process exits with status 0.
InitReturn ==
    /\ ini.pc = "return"
    /\ ini' = IF ini.defers # <<>>
              THEN [Unmount(ini, ini.defers[Len(ini.defers)])
                        EXCEPT !.defers = SubSeq(@, 1, Len(@) - 1)]
              ELSE Exit(ini, 0)
    /\ UNCHANGED iniRest

\* The init phase alone: the supervisors are off.
InitInit ==
    /\ InitDisk
    /\ SupIdle
    /\ StoreIdle
    /\ SupOff
    /\ par = NoParse
    /\ call = NoCall
    /\ \E cmd \in Commands \cup {<<<<"bash">>>>} :
         ini = [NoInit EXCEPT !.pc = "mount", !.command = cmd]

NextInit ==
    \/ InitMount
    \/ InitRollback
    \/ InitDevPts
    \/ InitExec
    \/ InitReturn

SpecInit == InitInit /\ [][NextInit]_vars

\* ----------------------------------- Load and ListContainers on one file
\* The metadata files of the entry: complete objects, objects that lack a
\* field (or hold it with another type), JSON null, a file that is no
\* JSON, and no file.
FullFiles ==
    [kind : {"json"}, ID : {1}, Image : {RootDir(AlpineDir), RootDir(DemoDir)},
     Command : Commands \cup {<<>>},
     Status : {"created", "running", "stopped", "failed"}, Pid : {0, 101}]
Without(m, f) == [k \in DOMAIN m \ {f} |-> m[k]]
JsonNull == [kind |-> "json"]
MetaFiles ==
    FullFiles
    \cup {Without(m, f) : m \in FullFiles, f \in {"Image", "Status", "Pid", "Command"}}
    \cup {JsonNull, NoFile, Partial}

\* Load, lines 361-414: an error for a file that is missing, unreadable as
\* JSON, or without a string Image or Status; the Container otherwise.
LoadFile(id, m) ==
    IF m.kind = "absent" THEN [err |-> "not found", cont |-> Nil]
    ELSE IF m.kind = "partial" THEN [err |-> "failed to parse", cont |-> Nil]
    ELSE IF "Image" \notin DOMAIN m THEN [err |-> "invalid Image", cont |-> Nil]
    ELSE IF "Status" \notin DOMAIN m THEN [err |-> "invalid Status", cont |-> Nil]
    ELSE [err |-> "nil", cont |-> Decode(id, m)]

\* ListContainers, lines 298-358, on a containers/ whose one entry holds
\* the file: the list returned, or the panic that ends the process.
ListFile(id, m) ==
    IF ListOutcome(m) = "panic" THEN [panic |-> TRUE, list |-> <<>>]
    ELSE IF ListOutcome(m) = "append" THEN [panic |-> FALSE, list |-> <<Decode(id, m)>>]
    ELSE [panic |-> FALSE, list |-> <<>>]

LoadCall ==
    /\ call.fn = "load" /\ call.pc = "start"
    /\ call' = [call EXCEPT !.pc = "loaded", !.load = LoadFile(1, call.file)]
    /\ UNCHANGED callRest

ListCall ==
    /\ call.fn = "load" /\ call.pc = "loaded"
    /\ call' = [call EXCEPT !.pc = "listed", !.list = ListFile(1, call.file)]
    /\ UNCHANGED callRest

InitLoad ==
    /\ InitDisk
    /\ SupIdle
    /\ StoreIdle
    /\ SupOff
    /\ ini = NoInit
    /\ par = NoParse
    /\ \E m \in MetaFiles :
         call = [fn |-> "load", pc |-> "start", file |-> m,
                 load |-> [err |-> "nil", cont |-> Nil],
                 list |-> [panic |-> FALSE, list |-> <<>>]]

NextLoad ==
    \/ LoadCall
    \/ ListCall

SpecLoad == InitLoad /\ [][NextLoad]_vars

\* ------------------------------------------- the argv of the init process
\* The repository holds two main programs that answer to `containerize`;
\* either may be the binary that prepareRootfs copied into the rootfs.
MainVersions == {"src/cmd/main.go", "src/unnamed/part_006"}

\* Start, lines 234-240: the argv the supervisor gives the child.
StartArgs(cmd) == <<<<"/usr/local/bin/floka">>, <<"containerize">>>> \o cmd

\* What a main makes of its argv: an early exit, or the program it runs
\* with the arguments it passes.
NotEnough == [ok |-> FALSE, rootfs |-> <<>>, prog |-> <<>>, args |-> <<>>]

\* src/cmd/main.go: main hands os.Args[2:] to runContainerized (19-24),
\* which wants at least two elements, takes the first as the rootfs and
\* runs the rest (145-189).
ContainerizeCmd(osArgs) ==
    LET a == SubSeq(osArgs, 3, Len(osArgs)) IN
    IF Len(a) < 2 THEN NotEnough
    ELSE [ok |-> TRUE, rootfs |-> <<a[1]>>, prog |-> a[2], args |-> SubSeq(a, 3, Len(a))]

\* src/unnamed/part_006: case "containerize" wants flag.NArg() >= 2 and
\* hands flag.Args()[1:] to runContainerized (188-204), which runs
\* command[0], or /bin/bash for bash when that file exists (476-496).
ContainerizeFlag(osArgs, hasBash) ==
    LET fa == Tail(osArgs) IN
    IF Len(fa) < 2 THEN NotEnough
    ELSE LET cmd == Tail(fa) IN
         [ok |-> TRUE, rootfs |-> <<>>, prog |-> CmdToExec(cmd, hasBash), args |-> Tail(cmd)]

ArgvWords == {<<"/bin/sh">>, <<"bash">>, <<"-c">>, <<"/bin/echo">>}
ArgvCommands == UNION {[1..n -> ArgvWords] : n \in 1..3}

\* Start builds the argv and spawns the child.
ArgvSpawn ==
    /\ call.fn = "argv" /\ call.pc = "start"
    /\ call' = [call EXCEPT !.pc = "spawned", !.osArgs = StartArgs(call.command)]
    /\ UNCHANGED callRest

\* The child's main reads its argv.
ArgvContainerize ==
    /\ call.fn = "argv" /\ call.pc = "spawned" /\ call.osArgs[2] = <<"containerize">>
    /\ call' = [call EXCEPT
                   !.pc = "done",
                   !.res = IF call.main = "src/cmd/main.go"
                           THEN ContainerizeCmd(call.osArgs)
                           ELSE ContainerizeFlag(call.osArgs, call.hasBash)]
    /\ UNCHANGED callRest

InitArgv ==
    /\ InitDisk
    /\ SupIdle
    /\ StoreIdle
    /\ SupOff
    /\ ini = NoInit
    /\ par = NoParse
    /\ \E cmd \in ArgvCommands, m \in MainVersions, b \in BOOLEAN :
         call = [fn |-> "argv", pc |-> "start", main |-> m, command |-> cmd,
                 hasBash |-> b, osArgs |-> <<>>, res |-> NotEnough]

NextArgv ==
    \/ ArgvSpawn
    \/ ArgvContainerize

SpecArgv == InitArgv /\ [][NextArgv]_vars

\* ======================================================= the buildfile parser
\* A file is a sequence of lines, each ended by a newline; a line is a
\* sequence of chunks: a space, a backslash, a "#", or a word.
Backslash == "\\"
LongWord == "x...x"

\* The number of bytes of a chunk; LongWord is a word of 65531 bytes.
ByteLen(ch) ==
    CASE ch = LongWord -> 65531
      [] ch \in {"RUN", "run"} -> 3
      [] ch \in {"FROM", "note"} -> 4
      [] ch = "alpine" -> 6
      [] OTHER -> 1
RECURSIVE LineLen(_)
LineLen(line) == IF line = <<>> THEN 0 ELSE ByteLen(Head(line)) + LineLen(Tail(line))

\* bufio.MaxScanTokenSize, the size of the largest token of a bufio.Scanner
\* made by bufio.NewScanner: a line and its newline must fit in it.
MaxScanTokenSize == 64 * 1024
TooLong(line) == LineLen(line) + 1 > MaxScanTokenSize

\* strings.HasSuffix(s, "\\")
EndsWithBackslash(s) == s # <<>> /\ s[Len(s)] = Backslash
\* strings.TrimSuffix(s, "\\") of a string that has the suffix.
TrimBackslash(s) == SubSeq(s, 1, Len(s) - 1)

\* The loop of lines 38-82 and the lines 85-87 after it: the lines left,
\* currentInstruction (Nil for nil) and flokafile.Instructions.
RECURSIVE ParseLines(_, _, _)
ParseLines(lines, currentInstruction, instructions) ==
    LET line == TrimSpace(Head(lines))
        flushed == IF currentInstruction # Nil
                   THEN Append(instructions, currentInstruction)
                   ELSE instructions
        parts == SplitN2(line, " ")
        cmd == ToUpper(parts[1])
        cmdArgs == IF Len(parts) > 1 THEN TrimSpace(parts[2]) ELSE <<>>
    IN  IF lines = <<>>
        THEN flushed
        ELSE IF line = <<>> \/ line[1] = "#"
        THEN ParseLines(Tail(lines), currentInstruction, instructions)
        ELSE IF currentInstruction # Nil /\ EndsWithBackslash(line)
        THEN ParseLines(Tail(lines),
                        [currentInstruction EXCEPT
                            !.Args = @ \o <<" ">> \o TrimSpace(TrimBackslash(line))],
                        instructions)
        ELSE IF EndsWithBackslash(cmdArgs)
        THEN ParseLines(Tail(lines),
                        [Command |-> cmd, Args |-> TrimBackslash(cmdArgs)], flushed)
        ELSE ParseLines(Tail(lines), Nil,
                        Append(flushed, [Command |-> cmd, Args |-> cmdArgs]))

\* Parse(path) on a file that can be opened: the instructions, or the error
\* of the scanner (lines 89-91) when a line is longer than its buffer.
Parse(lines) ==
    IF \E i \in DOMAIN lines : TooLong(lines[i])
    THEN [err |-> "error reading flokafile", Instructions |-> <<>>]
    ELSE [err |-> "nil", Instructions |-> ParseLines(lines, Nil, <<>>)]

\* ---- files and the lines added to them
Flokafiles ==
    { <<>>,
      << <<"FROM", " ", "alpine">> >>,
      << <<"RUN", " ", "a", " ", Backslash>>, <<"b", " ", Backslash>>, <<"c">> >>,
      << <<"run", " ", "a", Backslash>>, <<" ", "b">> >>,
      << <<"FROM", " ", "alpine">>, <<"RUN", " ", Backslash>>, <<"a", Backslash>> >>,
      << <<"RUN", " ", LongWord>> >> }
CommentLine == <<"#", " ", "note">>
MaxEdits == 2
\* The longest file after the edits.
MaxLines == 3 + MaxEdits

InsertAt(q, k, x) == SubSeq(q, 1, k - 1) \o <<x>> \o SubSeq(q, k, Len(q))

parRest == <<envVars, diskVars, proc, supVars, removed, cliVars, ctl, listVars, cgfiles,
             hostVars, argv, storeVars, ini, call>>

\* A blank line or a comment line is added before line k of the edited file
\* (after the last line when k is Len + 1).
AddBlank(k) ==
    /\ par.pc = "edit" /\ par.edits < MaxEdits
    /\ k \in 1..(Len(par.edited) + 1)
    /\ par' = [par EXCEPT !.edited = InsertAt(@, k, <<>>), !.edits = @ + 1]
    /\ UNCHANGED parRest

AddComment(k) ==
    /\ par.pc = "edit" /\ par.edits < MaxEdits
    /\ k \in 1..(Len(par.edited) + 1)
    /\ par' = [par EXCEPT !.edited = InsertAt(@, k, CommentLine), !.edits = @ + 1]
    /\ UNCHANGED parRest

\* A space is added at the end of line k of the edited file.
AddTrailingSpace(k) ==
    /\ par.pc = "edit" /\ par.edits < MaxEdits
    /\ k \in 1..Len(par.edited)
    /\ par' = [par EXCEPT !.edited[k] = Append(@, " "), !.edits = @ + 1]
    /\ UNCHANGED parRest

\* Parse is called on the file and on the edited file.
ParseFiles ==
    /\ par.pc = "edit"
    /\ par' = [par EXCEPT !.pc = "parsed",
                          !.res = Parse(par.file),
                          !.res2 = Parse(par.edited)]
    /\ UNCHANGED parRest

InitParse ==
    /\ InitDisk
    /\ SupIdle
    /\ StoreIdle
    /\ ini = NoInit
    /\ call = NoCall
    /\ SupOff
    /\ \E f \in Flokafiles : par = [NoParse EXCEPT !.pc = "edit", !.file = f, !.edited = f]

NextParse ==
    \/ \E k \in 1..MaxLines : AddBlank(k)
    \/ \E k \in 1..MaxLines : AddComment(k)
    \/ \E k \in 1..MaxLines : AddTrailingSpace(k)
    \/ ParseFiles

SpecParse == InitParse /\ [][NextParse]_vars

\* ------------------------------------------ the build command, both readers
\* The instructions the loop of Build takes from the file and hands to its
\* switch (fimage.go, lines 198-213): strings.ToUpper(parts[0]) and
\* parts[1], for every line reached before the loop returns an error.
RECURSIVE BuildInstructions(_, _)
BuildInstructions(st, lines) ==
    LET line == TrimSpace(Head(lines))
        parts == SplitN2(line, " ")
    IN  IF lines = <<>> \/ st.err # "nil"
        THEN <<>>
        ELSE (IF line = <<>> \/ line[1] = "#" \/ Len(parts) < 2
              THEN <<>>
              ELSE <<[Command |-> ToUpper(parts[1]), Args |-> parts[2]]>>)
             \o BuildInstructions(BuildLine(st, Head(lines)), Tail(lines))

EvalFiles == {f \o g : f \in Flokafiles \cup Buildfiles, g \in Flokafiles \cup Buildfiles}

\* buildImage, lines 397-401: the file is parsed; an error ends the process.
EvalParse ==
    /\ call.fn = "buildImage" /\ call.pc = "parse"
    /\ call' = [call EXCEPT !.parsed = Parse(call.file),
                            !.pc = IF Parse(call.file).err = "nil" THEN "build" ELSE "exited"]
    /\ UNCHANGED callRest

\* buildImage, line 412: Build reads the file again and applies what its own
\* loop finds in it.
EvalBuild ==
    /\ call.fn = "buildImage" /\ call.pc = "build"
    /\ call' = [call EXCEPT
                   !.applied = BuildInstructions([files |-> {}, env |-> <<>>, err |-> "nil"],
                                                 call.file),
                   !.err = BuildLines([files |-> {}, env |-> <<>>, err |-> "nil"],
                                      call.file).err,
                   !.pc = "exited"]
    /\ UNCHANGED callRest

InitEval ==
    /\ InitDisk
    /\ SupIdle
    /\ StoreIdle
    /\ SupOff
    /\ ini = NoInit
    /\ par = NoParse
    /\ \E f \in EvalFiles :
         call = [fn |-> "buildImage", pc |-> "parse", file |-> f,
                 parsed |-> [err |-> "nil", Instructions |-> <<>>],
                 applied |-> <<>>, err |-> "nil"]

NextEval ==
    \/ EvalParse
    \/ EvalBuild

SpecEval == InitEval /\ [][NextEval]_vars

\* ---- the cpu.weight of setupCgroups on its own, for two numbers of shares
\* (setupCgroups computes it for shares above 0 only, line 178).
ShareValues == {1, 2, 3, 28, 29, 1024, 131072, 262143, 262144, 262145, 262171, 1000000}

CpuWeigh ==
    /\ call.fn = "cpu.weight" /\ call.pc = "called"
    /\ call' = [call EXCEPT !.pc = "returned",
                            !.res = <<CpuWeight(call.shares), CpuWeight(call.more)>>]
    /\ UNCHANGED callRest

InitCpu ==
    /\ InitDisk
    /\ SupIdle
    /\ StoreIdle
    /\ ini = NoInit
    /\ par = NoParse
    /\ SupOff
    /\ \E a \in ShareValues, b \in ShareValues :
         /\ a <= b
         /\ call = [fn |-> "cpu.weight", pc |-> "called", shares |-> a, more |-> b,
                    res |-> <<>>]

NextCpu == CpuWeigh

SpecCpu == InitCpu /\ [][NextCpu]_vars

\* ---- image references on their own
\* main, case "pull" (lines 98-104): the IMAGE[:TAG] argument.
PullArg(arg) ==
    IF IndexOf(arg, ":") = 0
    THEN [imageName |-> arg, tag |-> Latest]
    ELSE [imageName |-> SplitN2(arg, ":")[1],
          tag |-> SplitN2(SplitN2(arg, ":")[2], ":")[1]]

\* Names and tags; a name may hold a colon itself.
RefNames == {Alpine, Demo, <<"app", ":", "beta">>, <<"a", ".", "b">>}
RefTags == {Latest, V1, <<"1", ".", "0">>, <<"edge">>}
RefStrings == RefNames \cup {ImageFullName(n, t) : n \in RefNames, t \in RefTags}
RefSites == {"list", "build", "pull"}

\* The name and tag the listing gives a directory name, Build gives its tag
\* argument, and the pull command gives its argument.
RefSplit ==
    /\ call.fn = "split" /\ call.pc = "called"
    /\ call' = [call EXCEPT
                   !.pc = "returned",
                   !.res = IF call.site = "pull"
                           THEN [Name |-> PullArg(call.ref).imageName,
                                 Tag |-> PullArg(call.ref).tag]
                           ELSE [Name |-> ImageOf(call.ref).Name,
                                 Tag |-> ImageOf(call.ref).Tag]]
    /\ UNCHANGED callRest

InitRef ==
    /\ InitDisk
    /\ SupIdle
    /\ StoreIdle
    /\ ini = NoInit
    /\ par = NoParse
    /\ SupOff
    /\ \E r \in RefStrings, site \in RefSites :
         call = [fn |-> "split", pc |-> "called", site |-> site, ref |-> r, res |-> Nil]

NextRef == RefSplit

SpecRef == InitRef /\ [][NextRef]_vars

\* ============================================================ properties
Range(q) == {q[i] : i \in DOMAIN q}

Rank(e) ==
    CASE e = "mkdir" -> 1
      [] e = "bind" -> 2
      [] e = "selfinsert" -> 3
      [] e = "meta_created" -> 4
      [] e = "cgroup_setup" -> 5
      [] e = "spawn" -> 6
      [] e = "meta_running" -> 7
      [] e = "cgroup_attach" -> 8

Statuses == {"created", "running", "stopped", "failed"}
AllowedTransitions ==
    {<<"created", "running">>, <<"running", "stopped">>, <<"created", "failed">>}

\* C3: under any sequence of Run, Stop and Remove the persisted status is
\* one of created, running, stopped, failed; it changes only along
\* created -> running -> stopped or created -> failed; and whenever an
\* object's status changed and its metadata write is over, the file holds
\* the object's status.
C3_StatusLifecycle ==
    /\ [](\A id \in IDs : meta[id].kind = "json" => meta[id].Status \in Statuses)
    /\ [][\A id \in IDs :
            (/\ meta[id].kind = "json"
             /\ meta'[id].kind = "json"
             /\ meta'[id].Status # meta[id].Status)
            => <<meta[id].Status, meta'[id].Status>> \in AllowedTransitions]_vars
    /\ [][\A p \in Sup :
            (\/ pc[p] \in DataSteps /\ pc'[p] \notin DataSteps
             \/ pc[p] = "returned" /\ c[p] # Nil /\ c'[p].Status # c[p].Status)
            => /\ meta'[c'[p].ID].kind = "json"
               /\ meta'[c'[p].ID].Status = c'[p].Status]_vars

\* C4: the runtime never writes into images/<ref>/rootfs: the files and
\* directories under every image's rootfs stay what they were before Run.
C4_ImageNeverWritten ==
    \A d \in DirNames : images[d].files = (IF d = AlpineDir THEN BaseFiles ELSE {})

NoCgroupDir(id) == \A k \in {"unified", "memory", "cpu"} : <<k, id>> \notin cg

C6_NoOrphanMounts == \A id \in removed : mounts[id] = <<>>

\* C7: metadata durability: after a successful Run (and before any Remove)
\* ListContainers returns a record of the container with the ID Run made and
\* the Image and Command passed to Run, and, when no other process has
\* loaded the container, with the Status and Pid the supervisor has.
C7_MetadataDurability ==
    \A p \in Sup :
        (/\ pc[p] = "returned"
         /\ ret[p] = [cont |-> TRUE, err |-> "nil"]
         /\ c[p].ID \notin removed)
        => /\ ListedRecord(c[p].ID) # Nil
           /\ ListedRecord(c[p].ID).ID = containerID[p]
           /\ ListedRecord(c[p].ID).Image = image[p]
           /\ ListedRecord(c[p].ID).Command = command[p]
           /\ ctl = Nil => /\ ListedRecord(c[p].ID).Status = c[p].Status
                           /\ ListedRecord(c[p].ID).Pid = c[p].Pid


\* C1: the run supervisor forwards the exit code of the containerized
\* command: whenever the child ran to completion with status k, the run
\* process exits with status k.
C1_ExitCodeForwarded ==
    \A p \in Sup :
        (exitStatus[p] # <<>> /\ proc[PidOf(p)].state = "reaped")
        => exitStatus[p] = <<proc[PidOf(p)].code>>

\* C8: two concurrent Runs obtain distinct container IDs and distinct
\* containers/<id>/ directories.
C8_DistinctIDs ==
    \A p, q \in Sup :
        (p # q /\ "mkdir" \in Range(trace[p]) /\ "mkdir" \in Range(trace[q]))
        => containerID[p] # containerID[q]

\* The records of the entries whose files held a complete record when read.
RECURSIVE Listed(_, _)
Listed(entries, seen) ==
    IF seen = <<>> THEN <<>>
    ELSE (IF Head(seen).kind = "json" THEN <<Decode(Head(entries), Head(seen))>> ELSE <<>>)
         \o Listed(Tail(entries), Tail(seen))

\* C9: ListContainers, interleaved with in-place metadata rewrites and with
\* Removes, never aborts; it skips the entries whose file is missing,
\* truncated or unparsable and returns the record of every other entry.
C9_ListTolerant ==
    /\ ~laborted
    /\ lpc = "done" =>
        /\ Len(lseen) = Len(lentries)
        /\ lresult = Listed(lentries, lseen)

\* A listing that skipped a truncated or removed entry and returned another.
C9_Witness ==
    /\ lpc = "done"
    /\ Len(lentries) = 2
    /\ \E i \in 1..2 : lseen[i].kind # "json"
    /\ Len(lresult) = 1

\* C10: `run nonexistent /bin/true`, with no images/nonexistent:latest
\* directory, exits with status 1, writes a message containing "not found
\* locally" to standard error and creates no entry under containers/.
C10_MissingImage ==
    \A p \in Sup :
        (exitStatus[p] # <<>> /\ argv[p] = <<Nonexistent, <<"/bin/true">>>>)
        => /\ exitStatus[p] = <<1>>
           /\ "Error: Image not found locally" \in stderr[p]
           /\ \A id \in IDs : ~cdir[id]


\* Run has got as far as Container.Start and has returned to its caller,
\* who has not called anything since.
ReachedStart(p) ==
    /\ pc[p] = "returned"
    /\ hist[p] = <<"Run">>
    /\ "meta_created" \in Range(trace[p])
    /\ opts[p] # Nil => "cgroup_setup" \in Range(trace[p])

C12_MemoryLimitRun ==
    \A p \in Sup :
        (cgv2 /\ argv[p] = <<<<"-", "m">>, <<"64", "m">>, Alpine, <<"/bin/true">>>>)
        => /\ pc[p] # "cli_args" =>
                /\ args[p] # Nil
                /\ args[p].memLimit = <<"64", "m">>
                /\ args[p].imageName = Alpine
           /\ "spawn" \in Range(trace[p]) =>
                <<"unified", containerID[p], "memory.max", 67108864>> \in cgfiles
           /\ exitStatus[p] = <<0>> =>
                /\ "spawn" \in Range(trace[p])
                /\ <<"unified", containerID[p]>> \notin cg

\* C11: an image counts as present (Pull succeeds on it, the listing shows
\* it) only if images/<name>:<tag>/rootfs exists and is a non-empty
\* directory, and Pull succeeds exactly when the image directory and its
\* rootfs both exist.
C11_PresentImage ==
    /\ \A r \in Refs :
          LET d == ImageFullName(r[1], r[2]) IN
          /\ Pull(r[1], r[2], TRUE).err = "nil"
                => images[d].rootfs /\ images[d].files # {}
          /\ Pull(r[1], r[2], TRUE).err = "nil" <=> (images[d].dir /\ images[d].rootfs)
    /\ \A i \in DOMAIN GetImagesFromLocalStorage :
          LET d == ImageFullName(GetImagesFromLocalStorage[i].Name,
                                 GetImagesFromLocalStorage[i].Tag) IN
          d \in DirNames /\ images[d].rootfs /\ images[d].files # {}

\* C13: a Build of the two lines FROM scratch, ENV GREETING=hi with the tag
\* demo:v1, on a store without demo:v1, succeeds; the listing then shows
\* exactly one demo:v1; rootfs/etc/environment holds the line GREETING=hi;
\* and after a Remove of that image the listing shows no demo:v1.
C13_BuildListRemove ==
    /\ (/\ sres.op = "build" /\ sres.ref = DemoDir /\ sres.fresh
        /\ sres.file = <<FromScratch, EnvGreeting>>)
       => /\ sres.err = "nil"
          /\ sres.img # Nil
          /\ Cardinality({i \in DOMAIN GetImagesFromLocalStorage :
                            /\ GetImagesFromLocalStorage[i].Name = Demo
                            /\ GetImagesFromLocalStorage[i].Tag = V1}) = 1
          /\ "etc/environment" \in images[DemoDir].files
          /\ \E i \in DOMAIN ienv[DemoDir] : ienv[DemoDir][i] = <<<<"GREETING">>, <<"hi">>>>
    /\ (sres.op = "remove" /\ sres.ref = DemoDir)
       => \A i \in DOMAIN GetImagesFromLocalStorage :
             ~(/\ GetImagesFromLocalStorage[i].Name = Demo
               /\ GetImagesFromLocalStorage[i].Tag = V1)

\* The targets of the calls of one kind in the log of the init phase that
\* had the given outcome, in the order they were made.
RECURSIVE TargetsOf(_, _, _)
TargetsOf(log, op, ok) ==
    IF log = <<>> THEN <<>>
    ELSE (IF Head(log).op = op /\ Head(log).ok = ok THEN <<Head(log).target>> ELSE <<>>)
         \o TargetsOf(Tail(log), op, ok)
Reverse(q) == [i \in 1..Len(q) |-> q[Len(q) + 1 - i]]
MountFailed == \E t \in Range(MountTargets) : t \in Range(TargetsOf(ini.log, "mount", FALSE))
UnmountRank(t) == CASE t = DevPts -> 1 [] t = "/dev" -> 2 [] t = "/sys" -> 3 [] OTHER -> 4

\* C14: in the init phase mount(/proc) comes before mount(/sys), which comes
\* before mount(/dev); the unmounts come in the reverse order: /dev/pts (if
\* mounted), then /dev, then /sys, then /proc.
C14_MountOrder ==
    LET mounted == SelectSeq(TargetsOf(ini.log, "mount", TRUE), LAMBDA t : t # DevPts)
        unmounted == TargetsOf(ini.log, "umount", TRUE)
    IN  /\ \A i \in DOMAIN mounted : mounted[i] = MountTargets[i]
        /\ \A i, j \in DOMAIN unmounted :
              i < j => UnmountRank(unmounted[i]) < UnmountRank(unmounted[j])

\* C15: whenever the command has exited, with code zero or not, the init
\* process has unmounted /dev/pts (if mounted), /dev, /sys and /proc by the
\* time it exits, and its exit code is the command's.
C15_UnmountOnExit ==
    (ini.pc = "exited" /\ ini.cmd # <<>> /\ ini.cmd[1] \in ExitCodes)
    => /\ ini.mnt = <<>>
       /\ Range(TargetsOf(ini.log, "umount", TRUE)) = Range(TargetsOf(ini.log, "mount", TRUE))
       /\ ini.exit = ini.cmd

Groups ==
    { << <<"RUN", " ", "a", " ", Backslash>>, <<"b", " ", Backslash>>, <<"c">> >>,
      << <<"run", " ", "a", Backslash>>, <<" ", "b">> >> }
\* The content of a line: trimmed, and without its trailing backslash.
Content(line) ==
    IF EndsWithBackslash(TrimSpace(line))
    THEN TrimSpace(TrimBackslash(TrimSpace(line)))
    ELSE TrimSpace(line)
RECURSIVE FoldedRest(_)
FoldedRest(lines) ==
    IF lines = <<>> THEN <<>>
    ELSE IF TrimSpace(Head(lines)) = <<>> \/ TrimSpace(Head(lines))[1] = "#"
    THEN FoldedRest(Tail(lines))
    ELSE <<" ">> \o Content(Head(lines)) \o FoldedRest(Tail(lines))
Folded(lines) ==
    [Command |-> ToUpper(SplitN2(TrimSpace(lines[1]), " ")[1]),
     Args |-> Content(SplitN2(TrimSpace(lines[1]), " ")[2]) \o FoldedRest(Tail(lines))]

\* C19: a logical instruction written on lines ending in a backslash and a
\* last line without one is parsed as exactly one instruction, whose args
\* are the args of the first line and then, for every following non-comment
\* line, the last one included, one space and the trimmed content of the
\* line without its trailing backslash.
C19_ContinuationFolding ==
    (par.pc = "parsed" /\ par.file \in Groups)
    => /\ par.res.err = "nil"
       /\ par.res.Instructions = <<Folded(par.file)>>

\* C20: Parse returns the same ordered instruction list for a file F and
\* for any F' made from F by adding blank lines, trailing spaces on lines
\* and comment lines, between the lines of a continuation too.
C20_WhitespaceIdempotence ==
    par.pc = "parsed" => par.res = par.res2

\* The power of 1024 a suffix stands for.
SuffixExp(x) ==
    CASE x \in {<<"k">>, <<"K">>} -> 1
      [] x \in {<<"m">>, <<"M">>} -> 2
      [] x \in {<<"g">>, <<"G">>} -> 3
      [] OTHER -> 0

\* C21: for every natural number n whose decimal rendering parses as a
\* 64-bit integer and every suffix "", k, m, g in either case,
\* parseMemoryLimit of the rendering followed by the suffix returns n times
\* 1, 1024, 1024^2 or 1024^3, also when the product is beyond the int64
\* range.
C21_MemoryLimitRoundTrip ==
    (call.fn = "parseMemoryLimit" /\ call.pc = "returned")
    => /\ call.res.ok
       /\ ~Negative64(call.res.value)
       /\ call.res.value = ShiftLimbs(call.n, SuffixExp(call.suffix))

\* C22: the cpu.weight computed from CPU shares is monotonic non-decreasing
\* in the shares, is 1 for 2 shares and 10000 for 262144 shares, is clamped
\* outside that range, and always lies in 1..10000.
C22_CpuWeightMapping ==
    (call.fn = "cpu.weight" /\ call.pc = "returned")
    => /\ call.res[1] <= call.res[2]
       /\ call.res[1] \in 1..10000
       /\ call.shares <= 2 => call.res[1] = 1
       /\ call.shares >= 262144 => call.res[1] = 10000

\* C23: splitting a reference "<n>:<t>" gives (n, t), and rendering that as
\* "<n>:<t>" gives the reference back; a reference without a colon gets the
\* tag "latest".  This holds in the listing, in Build and in the pull
\* command.
C23_ReferenceRoundTrip ==
    (call.fn = "split" /\ call.pc = "returned")
    => IF IndexOf(call.ref, ":") = 0
       THEN call.res.Name = call.ref /\ call.res.Tag = Latest
       ELSE ImageFullName(call.res.Name, call.res.Tag) = call.ref

\* The commands of the instructions of a build file.
Recognized == {<<"FROM">>, <<"RUN">>, <<"COPY">>, <<"ADD">>, <<"ENV">>, <<"WORKDIR">>,
               <<"EXPOSE">>, <<"CMD">>, <<"ENTRYPOINT">>}
CommandsIn(file) ==
    {ToUpper(SplitN2(TrimSpace(file[i]), " ")[1]) :
        i \in {j \in DOMAIN file : TrimSpace(file[j]) # <<>> /\ TrimSpace(file[j])[1] # "#"}}

\* C24: Build never rejects as unknown an instruction whose command is
\* FROM, RUN, COPY, ADD, ENV, WORKDIR, EXPOSE, CMD or ENTRYPOINT, and ADD
\* copies its source into the rootfs as COPY does.
C24_RecognizedCommands ==
    (sres.op = "build" /\ sres.fresh /\ CommandsIn(sres.file) \subseteq Recognized)
    => /\ sres.err # "unknown instruction"
       /\ (\E i \in DOMAIN sres.file : sres.file[i] = <<"ADD", " ", "hosts", " ", "/etc/hosts">>)
            => "etc/hosts" \in images[sres.ref].files

\* C25: after a run whose command ended with a non-zero exit status, ps
\* lists the container of that run with Status stopped and a Command
\* column that begins with /bin/sh.
C25_PsShowsStopped ==
    (/\ call.fn = "ps" /\ call.pc = "returned"
     /\ argv["s1"] = <<Alpine, <<"/bin/sh">>>>
     /\ proc[PidOf("s1")].state = "reaped" /\ proc[PidOf("s1")].code = 7)
    => \E i \in DOMAIN call.res :
          /\ call.res[i].ID = containerID["s1"]
          /\ call.res[i].Status = "stopped"
          /\ call.res[i].Command[1] = "/bin/sh"

\* C26: in every persisted record, Pid is set exactly when status is
\* running: a created, stopped or failed record carries no Pid.
C26_PidIffRunning ==
    \A id \in IDs :
        (cdir[id] /\ meta[id].kind = "json")
        => (meta[id].Pid # 0 <=> meta[id].Status = "running")

\* C27: the supervisor spawns /usr/local/bin/floka containerize <cmd>...,
\* and the init process takes every argument after containerize as the
\* command vector: it runs command[0] (/bin/bash for bash) with the
\* arguments command[1..]; no element is taken as a rootfs path or dropped,
\* a one-element command included.
C27_ArgvProtocol ==
    (call.fn = "argv" /\ call.pc = "done")
    => /\ call.osArgs = <<<<"/usr/local/bin/floka">>, <<"containerize">>>> \o call.command
       /\ call.res.ok
       /\ call.res.rootfs = <<>>
       /\ call.res.prog \in (IF call.command[1] = <<"bash">>
                             THEN {<<"/bin/bash">>, <<"bash">>}
                             ELSE {call.command[1]})
       /\ call.res.args = Tail(call.command)

\* C28: Build evaluates the output of the parser: the sequence of
\* (command, args) pairs Build applies is the one flokafile.Parse returns
\* for the same file, with the same continuation folding, trimming and
\* splitting.
C28_BuildAppliesParsed ==
    (call.fn = "buildImage" /\ call.pc = "exited" /\ call.parsed.err = "nil")
    => call.applied = call.parsed.Instructions

\* C29: a Pull that fails leaves the store as it was: it creates nothing
\* under images/, so that a repeated Pull fails in the same way and the
\* listing never shows the reference.
PullAgain == Pull(SplitN2(sres.ref, ":")[1], SplitN2(sres.ref, ":")[2], TRUE)
ListsRef ==
    \E i \in DOMAIN GetImagesFromLocalStorage :
        GetImagesFromLocalStorage[i].RootDir = RootDir(sres.ref)
C29_FailedPullUnchanged ==
    [][(sres'.op = "pull" /\ sres'.err # "nil")
       => /\ images' = images
          /\ PullAgain'.err = sres'.err
          /\ ~ListsRef']_vars

\* C30: a Build that fails after it made images/<tag>/ leaves the store as
\* it was: no images/<tag>/ remains, the listing does not show the tag, and
\* a later Build with the same tag is not refused as already existing.
DirLeft == images[sres.ref].dir
BuildAgain == Build(<<FromScratch>>, sres.ref)
C30_FailedBuildUnchanged ==
    [][(sres'.op = "build" /\ sres'.fresh /\ sres'.err # "nil")
       => /\ images' = images
          /\ ~DirLeft'
          /\ ~ListsRef'
          /\ BuildAgain'.err # "already exists"]_vars

\* C31: Build, Pull and Remove agree on the directory of a reference: after
\* a Build with the tag argument T, with or without a colon, succeeded with
\* the record (Name, Tag), Pull(Name, Tag) finds that image, and Remove on
\* the record deletes the directory Build made and no other, after which the
\* listing does not show it.
Built == sres.op = "build" /\ sres.fresh /\ sres.err = "nil"
C31_OneDirectory ==
    [][/\ Built' => /\ Pull(sres.img.Name, sres.img.Tag, TRUE)'.err = "nil"
                    /\ Pull(sres.img.Name, sres.img.Tag, TRUE)'.RootDir = RootDir(sres.ref)'
       /\ (/\ Built
           /\ sres'.op = "remove"
           /\ sres'.ref = ImageFullName(sres.img.Name, sres.img.Tag))
          => /\ ~images'[sres.ref].dir
             /\ \A d \in DirNames \ {sres.ref} : images'[d] = images[d]
             /\ \A i \in DOMAIN GetImagesFromLocalStorage' :
                   GetImagesFromLocalStorage'[i].RootDir # RootDir(sres.ref)]_vars

\* C32: no mount leak on failed runs: when Run fails after the bind mount
\* succeeded, the run command does not end with containers/<id>/rootfs still
\* bind-mounted.
C32_NoMountLeak ==
    \A p \in Sup :
        (/\ exitStatus[p] # <<>>
         /\ "bind" \in Range(trace[p])
         /\ ret[p].err # "nil")
        => ~Mounted(containerID[p])

\* C33: Remove of a container deletes and changes nothing under images/:
\* when the unmount of containers/<id>/rootfs fails and Remove goes on to
\* delete containers/<id>/, the files of the image still mounted there stay.
C33_RemoveSparesImages ==
    [][(\E p \in Sup : hist'[p] = Append(hist[p], "Remove")) => images' = images]_vars

\* C34: whenever the persisted status of a container is stopped, or its
\* directory has been removed, its child process has ended: the process
\* recorded in Pid is never still alive then.
C34_StoppedMeansEnded ==
    /\ \A id \in IDs :
          (meta[id].kind = "json" /\ meta[id].Status = "stopped" /\ meta[id].Pid \in Pids)
          => proc[meta[id].Pid].state # "alive"
    /\ \A p \in Sup :
          (containerID[p] \in removed /\ ~cdir[containerID[p]])
          => proc[PidOf(p)].state # "alive"

\* C35: Remove completes for a container whose process is no longer alive:
\* on a record whose status is still running but whose Pid has ended,
\* Remove unmounts the rootfs, cleans up the cgroup and deletes
\* containers/<id>/.
Stale == ctl # Nil /\ ctl.Status = "running" /\ ctl.Pid \in Pids /\ ~Exists(ctl.Pid)
C35_RemoveOfStale ==
    [][(Stale /\ ctl.ID \notin removed /\ ctl.ID \in removed')
       => /\ ~cdir'[ctl.ID]
          /\ mounts'[ctl.ID] = <<>>
          /\ NoCgroupDir(ctl.ID)']_vars

\* C36: ListContainers and Load agree on every metadata file: the listing
\* holds a record for the entry exactly if Load succeeds, and then with the
\* same Image, Command, Status and Pid; for a file that is valid JSON
\* without a string Image or Status, or JSON null, Load returns an error
\* and ListContainers skips the entry without aborting.
C36_ListAgreesWithLoad ==
    (call.fn = "load" /\ call.pc = "listed")
    => /\ ~call.list.panic
       /\ call.list.list # <<>> <=> call.load.err = "nil"
       /\ call.list.list # <<>> => call.list.list[1] = call.load.cont
       /\ (/\ call.file.kind = "json"
           /\ ("Image" \notin DOMAIN call.file \/ "Status" \notin DOMAIN call.file))
          => call.load.err # "nil" /\ call.list.list = <<>>

\* C37: run honours the tag of its IMAGE argument: for NAME:TAG the rootfs
\* is resolved at images/NAME:TAG/rootfs, for NAME at
\* images/NAME:latest/rootfs, and an image that exists locally under that
\* directory is never reported as not found.
RefOfArg(arg) == IF IndexOf(arg, ":") = 0 THEN ImageFullName(arg, Latest) ELSE arg
C37_RunHonoursTag ==
    [][\A p \in Sup :
        (/\ pc[p] = "cli_pull" /\ pc'[p] # "cli_pull"
         /\ RefOfArg(args[p].imageName) \in DirNames
         /\ images[RefOfArg(args[p].imageName)].dir)
        => /\ "Error: Image not found locally" \notin stdout'[p]
           /\ image'[p] = RootDir(RefOfArg(args[p].imageName))]_vars

\* C38: two supervisors can run containers from one image at the same
\* time: while the child of the first executes /usr/local/bin/floka from
\* its rootfs, the staging of a second Run on the same image (bind mount
\* and self-insertion) completes and the Run goes on towards the spawn.
C38_SharedImageRuns ==
    [][\A p \in Sup :
        (/\ pc[p] = "selfInsert" /\ pc'[p] # "selfInsert"
         /\ Mounted(containerID[p])
         /\ "usr/local/bin" \in images[Top(containerID[p])].files
         /\ \E q \in Sup \ {p} : /\ proc[PidOf(q)].state = "alive"
                                  /\ DirOfRoot(image[q]) = Top(containerID[p]))
        => pc'[p] # "returned" /\ SelfPath \in images'[Top(containerID[p])].files]_vars

====
